---- MODULE Spec2Model ----
(***************************************************************************)
(* Lead-processing pipeline (processLeadsStep, flushBatchWrites) and email *)
(* dispatch (applyFiltersStep, previewEmailsStep, sendEmailsStep) of the   *)
(* SDR agent workflows.                                                    *)
(*                                                                         *)
(* Every await of the TypeScript code is a point where another row task    *)
(* may run, so one action is the code between two awaits of one task.      *)
(***************************************************************************)
EXTENDS Integers, Sequences, FiniteSets, TLC

(***************************************************************************)
(* Bounds of the model.                                                    *)
(***************************************************************************)
\* largest number of data rows of the sheet (totalRows)
MaxRows == 4
\* largest batch size a plan hands to processLeadsStep
MaxBatch == 4
\* largest number of rows and batch size of the runs in which the oracle
\* and the research service answer in every way they can
MaxScoredRows == 2
\* number of reads / scoring calls that may fail during one run
MaxFaults == 3
\* flush threshold of the pending-write buffer: `const BATCH_WRITE_SIZE = 50`
\* (lead-research-workflow.ts:383) scaled down so that a run of MaxRows rows
\* reaches it; the code only compares the buffer length against it
BATCH_WRITE_SIZE == 2

\* largest number of rows of a run of the whole lead research workflow
MaxWorkflowRows == 2

\* largest number of data rows of a sheet the reader tool is tried on
MaxSheetRows == 2

\* largest number of columns the grid of a sheet has beyond its lead columns
MaxSpareColumns == 1

\* largest number of loaded leads handed to applyFiltersStep alone
MaxLeads == 2
\* largest number of loaded leads of a full dispatch run
MaxSendLeads == 4
\* number of send calls that may fail during one dispatch run
MaxSendFaults == 4
\* batch size of sendEmailsStep: `const BATCH_SIZE = 50`
\* (oauth-setup-workflow.ts:885) scaled down so that a run of MaxSendLeads
\* leads needs more than one batch
SEND_BATCH_SIZE == 3
\* the number of emails after which the documentation has a run stop sending:
\* "Stop at 490 emails (safety buffer)", ten below the daily limit of 500,
\* scaled down with GMAIL_DAILY_LIMIT
DAILY_SEND_STOP == 1
\* how far below 0 the index of the batch loop is followed
MaxBackward == 4
\* largest number of rows of a finished run handed to generateSummaryStep
MaxSummaryRows == 12
\* number of leading rows of such a run whose outcomes are tried in every
\* combination
SummaryHead == 4
\* largest number of leads of a finished dispatch run handed to
\* generateDispatchReportStep
MaxReportLeads == 7

(***************************************************************************)
(* Program constants.                                                      *)
(***************************************************************************)
MAX_RETRIES == 3
\* batchSize: 10 of the research plan
PLAN_BATCH_SIZE == 10
\* MAX_RETRIES of sendEmailsStep
SEND_MAX_RETRIES == 2
\* parseInt(scoreMatch?.[1] || '50', 10)
DEFAULT_SCORE == 50
\* (score >= 60 ? 'YES' : 'NO')
QUALIFY_THRESHOLD == 60

\* a regular expression that did not match / an optional number not supplied
Absent == -1
\* an optional string that is undefined
Undefined == "undefined"
\* resumeData of a step that was not resumed / resumed without selectedFilter
NoResume == [selectedFilter |-> Undefined]
\* resumeData.customMapping that was not supplied
NoMapping == [given |-> FALSE, companyColumn |-> Undefined]
\* resumeData of exploreStructureStep / createResearchPlanStep when the step
\* runs for the first time
\* (hasConfirmed tells a payload with `confirmed` from one without it; the
\* value of an absent `confirmed` is falsy)
NoSchemaResume == [hasConfirmed |-> FALSE, confirmed |-> FALSE, customMapping |-> NoMapping]
NoPlanResume == [approved |-> FALSE, adjustedBatchSize |-> Absent]
\* the output of a step that has not returned
NoOutput == [returned |-> FALSE]

VARIABLES
    \* ---- processLeadsStep ----
    totalRows,        \* inputData.totalRows
    BATCH_SIZE,       \* researchPlan.batchSize
    tavilySearch,     \* TRUE iff tavilyTools?.['tavily_search'] is defined
    oracle,           \* the answers the scoring oracle may give in this run
    research,         \* the outcomes the research call may have in this run
    ppc,              \* position of processLeadsStep.execute
    i,                \* index of the batch loop
    task,             \* row number -> state of that row's async task
    batchWriteBuffer, \* pending writes: sequence of [rowNumber, values]
    flushing,         \* row number (0: final flush) -> snapshot being written
    results,          \* results[] of the step
    successful, failed, possibleClients, totalScore,
    headerWritten,    \* the four result headers were written
    writeCalls,       \* row number -> number of write calls issued for it
    pushed,           \* rows whose result was appended to the buffer
    faults,           \* failed reads / scoring calls so far
    progress          \* the progress updates logged so far, one record each

pvars == <<totalRows, BATCH_SIZE, tavilySearch, oracle, research, ppc, i, task, batchWriteBuffer,
           flushing, results, successful, failed, possibleClients, totalScore,
           headerWritten, writeCalls, pushed, faults, progress>>

VARIABLES
    \* ---- leadResearchWorkflow before processLeadsStep ----
    connectCalls,     \* metadata calls issued by validateConnectionStep
    metadataResult,   \* how the metadata call of validateConnectionStep ended
    suggestedCompany, \* suggestedMapping.companyColumn found in the headers
    schemaResume,     \* resumeData exploreStructureStep last ran with
    columnMapping,    \* columnMapping.companyColumn exploreStructureStep returned
    planResume,       \* resumeData createResearchPlanStep last ran with
    summaryOut        \* output of generateSummaryStep

svars == <<connectCalls, metadataResult, suggestedCompany, schemaResume, columnMapping,
           planResume, summaryOut>>

VARIABLES
    \* ---- googleSheetsReaderTool ----
    sheet,            \* the rows of the sheet, each a sequence of cells
    rowResult,        \* what the last read in mode 'row' returned
    columnCount       \* the column count of the sheet in its metadata

rvars == <<sheet, rowResult, columnCount>>

VARIABLES
    \* ---- emailDispatchWorkflow ----
    dpc,              \* the step the dispatch run is at
    leads,            \* output of loadLeadsStep
    resumeData,       \* the payload applyFiltersStep was last resumed with
    filteredLeads,    \* output of applyFiltersStep
    warning,          \* TRUE iff previewEmailsStep computed a warning
    confirmed,        \* previewEmailsStep was resumed with confirmed = true
    subjectTemplate,  \* output of previewEmailsStep
    si,               \* index of the send batch loop
    stask,            \* index into filteredLeads -> state of sendSingleEmail
    sendCalls,        \* index into filteredLeads -> send calls issued
    sresults,         \* results[] of sendEmailsStep
    totalSent, totalFailed,
    sfaults,          \* failed send calls so far
    statusWrites,     \* status writes updateSendStatusStep has issued
    statusAccepted,   \* status writes the store has accepted
    updateOut,        \* output of updateSendStatusStep
    report            \* output of generateDispatchReportStep

uvars == <<statusWrites, statusAccepted, updateOut, report>>

dvars == <<dpc, leads, resumeData, filteredLeads, warning, confirmed,
           subjectTemplate, si, stask, sendCalls, sresults, totalSent,
           totalFailed, sfaults, uvars>>

vars == <<pvars, svars, rvars, dvars>>

(***************************************************************************)
(* Helpers                                                                 *)
(***************************************************************************)
Min(a, b) == IF a < b THEN a ELSE b

\* rowNumbers: 2 .. totalRows + 1
RowNumbers == 2 .. (totalRows + 1)

\* the index Array.prototype.slice takes for an argument x on rowNumbers: a
\* negative x counts from the end, and the index is kept within 0 .. length
SliceIndex(x) ==
    IF x < 0 THEN (IF totalRows + x < 0 THEN 0 ELSE totalRows + x)
    ELSE Min(x, totalRows)

\* rowNumbers.slice(i, i + BATCH_SIZE): its first and last row number
BatchLo == SliceIndex(i) + 2
BatchHiShort == Min(i + BATCH_SIZE, totalRows)
BatchHi == SliceIndex(i + BATCH_SIZE) + 1
Batch == BatchLo .. BatchHi

\* the rows of a buffer snapshot
RowsOf(buf) == { buf[k].rowNumber : k \in 1 .. Len(buf) }

(***************************************************************************)
(* The scoring oracle's answer, as the four labelled sections the regular  *)
(* expressions look for.  A section is Absent or carries its captured      *)
(* text; the SCORE capture (\d+) is given as the number it denotes.        *)
(***************************************************************************)
FullResponse == [summary |-> "S", score |-> 85, label |-> "YES", message |-> "M"]

OracleResponses ==
    { FullResponse,
      [summary |-> "S",    score |-> Absent, label |-> "yes",  message |-> "M"],
      [summary |-> "S",    score |-> Absent, label |-> "none", message |-> "M"],
      [summary |-> "S",    score |-> 150,    label |-> "none", message |-> "none"],
      [summary |-> "S",    score |-> 85,     label |-> "no",   message |-> "M"],
      [summary |-> "none", score |-> Absent, label |-> "none", message |-> "none"] }

\* possibleMatch?.[1]?.toUpperCase()
ToUpperCase(s) == CASE s = "yes" -> "YES"
                    [] s = "no"  -> "NO"
                    [] OTHER     -> s

\* summaryMatch?.[1]?.trim() || 'Analysis pending'
ParseSummary(resp) == IF resp.summary = "none" THEN "Analysis pending" ELSE resp.summary

\* a default of 0 instead of 50
ParseScoreZero(resp) == IF resp.score = Absent THEN 0 ELSE resp.score

\* parseInt(scoreMatch?.[1] || '50', 10)
ParseScore(resp) == IF resp.score = Absent THEN DEFAULT_SCORE ELSE resp.score

\* a flag that is always derived from the score
ParsePossibleClientFromScore(resp) ==
    IF ParseScore(resp) >= QUALIFY_THRESHOLD THEN "YES" ELSE "NO"

\* possibleMatch?.[1]?.toUpperCase() || (score >= 60 ? 'YES' : 'NO')
ParsePossibleClient(resp) ==
    IF resp.label # "none" THEN ToUpperCase(resp.label)
    ELSE IF ParseScore(resp) >= QUALIFY_THRESHOLD THEN "YES" ELSE "NO"

\* messageMatch?.[1]?.trim() || 'Message pending'
ParseMessage(resp) == IF resp.message = "none" THEN "Message pending" ELSE resp.message

\* { rowNumber, values: [summary, score.toString(), isPossibleClient, message] }
BufferEntry(r, resp) ==
    [rowNumber |-> r,
     values |-> <<ParseSummary(resp), ToString(ParseScore(resp)),
                  ParsePossibleClient(resp), ParseMessage(resp)>>]

(***************************************************************************)
(* Row tasks                                                               *)
(***************************************************************************)
\* no answer of the agent yet (a record, like every answer)
NoResponse == [summary |-> "unset", score |-> Absent, label |-> "unset", message |-> "unset"]

IdleTask == [pc |-> "idle", attempt |-> 0, lastError |-> "none",
             researchResults |-> "none", resp |-> NoResponse]

\* the catch block missing: the exception leaves the row task
CatchRowErrorRethrow(t, err) == [t EXCEPT !.pc = "rejected", !.lastError = err]

\* the retry test off by one: a fourth attempt
CatchRowErrorExtraAttempt(t, err) ==
    IF t.attempt <= MAX_RETRIES
    THEN [t EXCEPT !.pc = "backoff", !.lastError = err, !.researchResults = "none"]
    ELSE [t EXCEPT !.pc = "failed", !.lastError = err, !.researchResults = "none"]

\* catch (error) { lastError = error; if (attempt < MAX_RETRIES) backoff }
\* after the last attempt the loop ends and the failure result is returned
CatchRowError(t, err) ==
    IF t.attempt < MAX_RETRIES
    THEN [t EXCEPT !.pc = "backoff", !.lastError = err, !.researchResults = "none"]
    ELSE [t EXCEPT !.pc = "failed", !.lastError = err, !.researchResults = "none"]

\* a flush that starts one entry late
FlushDueLate(buf) == Len(buf) > BATCH_WRITE_SIZE

\* the buffer length test that triggers a flush
FlushDue(buf) == Len(buf) >= BATCH_WRITE_SIZE

\* flushBatchWrites issues one write call per buffered item
IssueWrites(buf, wc) ==
    [r \in DOMAIN wc |->
        wc[r] + Cardinality({ k \in 1 .. Len(buf) : buf[k].rowNumber = r })]

\* batchWriteBuffer.length = 0 after the awaited flush
ClearBuffer(buf) == << >>

\* the dispatch run when no dispatch was started
DIdle ==
    /\ dpc = "idle"
    /\ leads = << >>
    /\ resumeData = NoResume
    /\ filteredLeads = << >>
    /\ warning = FALSE
    /\ confirmed = FALSE
    /\ subjectTemplate = Undefined
    /\ si = 0
    /\ stask = << >>
    /\ sendCalls = << >>
    /\ sresults = << >>
    /\ totalSent = 0 /\ totalFailed = 0
    /\ sfaults = 0
    /\ statusWrites = 0
    /\ statusAccepted = 0
    /\ updateOut = NoOutput
    /\ report = NoOutput

\* the reader tool when no row was read
RIdle ==
    /\ sheet = << >>
    /\ rowResult = NoOutput
    /\ columnCount = 0

\* the steps before processLeadsStep have returned: the connection was
\* validated, the mapping confirmed and the plan approved
SetupDone ==
    /\ connectCalls = 1
    /\ metadataResult = "ok"
    /\ suggestedCompany = "Company"
    /\ schemaResume = [hasConfirmed |-> TRUE, confirmed |-> TRUE, customMapping |-> NoMapping]
    /\ columnMapping = "Company"
    /\ planResume = [approved |-> TRUE, adjustedBatchSize |-> BATCH_SIZE]

PInit(maxRows, maxBatch, answers, outcomes) ==
    /\ DIdle
    /\ RIdle
    /\ progress = << >>
    /\ totalRows \in 1 .. maxRows
    /\ BATCH_SIZE \in 1 .. maxBatch
    /\ SetupDone
    /\ summaryOut = NoOutput
    /\ tavilySearch \in BOOLEAN
    /\ oracle = answers
    /\ research = outcomes
    /\ ppc = "start"
    /\ i = 0
    /\ task = [r \in RowNumbers |-> IdleTask]
    /\ batchWriteBuffer = << >>
    /\ flushing = [r \in {0} \cup RowNumbers |-> << >>]
    /\ results = << >>
    /\ successful = 0 /\ failed = 0 /\ possibleClients = 0 /\ totalScore = 0
    /\ headerWritten = FALSE
    /\ writeCalls = [r \in RowNumbers |-> 0]
    /\ pushed = {}
    /\ faults = 0

\* the header write before the loop
WriteHeaders ==
    /\ ppc = "start"
    /\ headerWritten' = TRUE
    /\ ppc' = "loop"
    /\ UNCHANGED <<dvars, svars, rvars, progress, totalRows, BATCH_SIZE, tavilySearch, oracle, research, i, task, batchWriteBuffer,
                   flushing, results, successful, failed, possibleClients,
                   totalScore, writeCalls, pushed, faults>>

\* batch.map(async (rowNumber) => ...): every task runs up to its first await,
\* the row read of attempt 1
StartChunk ==
    /\ ppc = "loop"
    /\ i < totalRows
    /\ i >= -MaxBackward
    /\ task' = [r \in RowNumbers |->
                  IF r \in Batch
                  THEN [IdleTask EXCEPT !.pc = "read", !.attempt = 1]
                  ELSE task[r]]
    /\ ppc' = "await"
    /\ UNCHANGED <<dvars, svars, rvars, progress, totalRows, BATCH_SIZE, tavilySearch, oracle, research, i, batchWriteBuffer,
                   flushing, results, successful, failed, possibleClients,
                   totalScore, headerWritten, writeCalls, pushed, faults>>

\* the row read returns a row: the research call is issued, or, without a
\* search tool, the scoring call with the initial placeholder
ReadRowOk(r) ==
    /\ task[r].pc = "read"
    /\ task' = [task EXCEPT ![r] =
                  IF tavilySearch
                  THEN [@ EXCEPT !.pc = "search"]
                  ELSE [@ EXCEPT !.pc = "score",
                                 !.researchResults = "Limited research data available"]]
    /\ UNCHANGED <<dvars, svars, rvars, progress, totalRows, BATCH_SIZE, tavilySearch, oracle, research, ppc, i, batchWriteBuffer,
                   flushing, results, successful, failed, possibleClients,
                   totalScore, headerWritten, writeCalls, pushed, faults>>

\* !rowResult?.success || !rowResult.row  ->  throw new Error('Failed to read row')
ReadRowFails(r) ==
    /\ task[r].pc = "read"
    /\ faults < MaxFaults
    /\ faults' = faults + 1
    /\ task' = [task EXCEPT ![r] = CatchRowError(@, "Failed to read row")]
    /\ UNCHANGED <<dvars, svars, rvars, progress, totalRows, BATCH_SIZE, tavilySearch, oracle, research, ppc, i, batchWriteBuffer,
                   flushing, results, successful, failed, possibleClients,
                   totalScore, headerWritten, writeCalls, pushed>>

\* how the research call can end: a result, nothing (falsy), an exception
SearchOutcomes == {"result", "falsy", "throw"}

\* the text handed to the scoring call after the research call ended
ResearchText(outcome) ==
    CASE outcome = "result" -> "search results"
      [] outcome = "falsy"  -> "Limited research data available"
      [] outcome = "throw"  -> "Research data unavailable"

\* the inner try/catch missing: a research exception fails the attempt
AfterSearchRethrow(t, outcome) ==
    IF outcome = "throw" THEN CatchRowError(t, "search failed")
    ELSE [t EXCEPT !.pc = "score", !.researchResults = ResearchText(outcome)]

\* the inner try/catch around the research call: whatever its outcome, the
\* attempt goes on to the scoring call
AfterSearch(t, outcome) ==
    [t EXCEPT !.pc = "score", !.researchResults = ResearchText(outcome)]

\* tavilySearch.execute returns, returns nothing, or throws (inner try/catch)
SearchReturns(r, outcome) ==
    /\ task[r].pc = "search"
    /\ task' = [task EXCEPT ![r] = AfterSearch(@, outcome)]
    /\ UNCHANGED <<dvars, svars, rvars, progress, totalRows, BATCH_SIZE, tavilySearch, oracle, research, ppc, i, batchWriteBuffer,
                   flushing, results, successful, failed, possibleClients,
                   totalScore, headerWritten, writeCalls, pushed, faults>>

\* sdrAgent.generate returns: parse, push, flush when the buffer is full
ScoreReturns(r, resp) ==
    /\ task[r].pc = "score"
    /\ LET buf == Append(batchWriteBuffer, BufferEntry(r, resp))
           done == [task[r] EXCEPT !.resp = resp]
       IN /\ batchWriteBuffer' = buf
          /\ pushed' = pushed \cup {r}
          /\ IF FlushDue(buf)
             THEN /\ flushing' = [flushing EXCEPT ![r] = buf]
                  /\ writeCalls' = IssueWrites(buf, writeCalls)
                  /\ task' = [task EXCEPT ![r] = [done EXCEPT !.pc = "flush"]]
             ELSE /\ task' = [task EXCEPT ![r] = [done EXCEPT !.pc = "ok"]]
                  /\ UNCHANGED <<flushing, writeCalls>>
    /\ UNCHANGED <<dvars, svars, rvars, progress, totalRows, BATCH_SIZE, tavilySearch, oracle, research, ppc, i, results,
                   successful, failed, possibleClients, totalScore,
                   headerWritten, faults>>

\* sdrAgent.generate throws
ScoreThrows(r) ==
    /\ task[r].pc = "score"
    /\ faults < MaxFaults
    /\ faults' = faults + 1
    /\ task' = [task EXCEPT ![r] = CatchRowError(@, "agent error")]
    /\ UNCHANGED <<dvars, svars, rvars, progress, totalRows, BATCH_SIZE, tavilySearch, oracle, research, ppc, i, batchWriteBuffer,
                   flushing, results, successful, failed, possibleClients,
                   totalScore, headerWritten, writeCalls, pushed>>

\* the awaited flushBatchWrites of a row task returns: clear the buffer, return
FlushReturns(r) ==
    /\ task[r].pc = "flush"
    /\ batchWriteBuffer' = ClearBuffer(batchWriteBuffer)
    /\ flushing' = [flushing EXCEPT ![r] = << >>]
    /\ task' = [task EXCEPT ![r] = [@ EXCEPT !.pc = "ok"]]
    /\ UNCHANGED <<dvars, svars, rvars, progress, totalRows, BATCH_SIZE, tavilySearch, oracle, research, ppc, i, results,
                   successful, failed, possibleClients, totalScore,
                   headerWritten, writeCalls, pushed, faults>>

\* the backoff timer fires: next attempt, starting with the row read
BackoffExpires(r) ==
    /\ task[r].pc = "backoff"
    /\ task' = [task EXCEPT ![r] = [@ EXCEPT !.pc = "read", !.attempt = @ + 1]]
    /\ UNCHANGED <<dvars, svars, rvars, progress, totalRows, BATCH_SIZE, tavilySearch, oracle, research, ppc, i, batchWriteBuffer,
                   flushing, results, successful, failed, possibleClients,
                   totalScore, headerWritten, writeCalls, pushed, faults>>

\* the value a finished row task returns
TaskResult(r) ==
    IF task[r].pc = "ok"
    THEN [success |-> TRUE, rowNumber |-> r, score |-> ParseScore(task[r].resp),
          isPossibleClient |-> ParsePossibleClient(task[r].resp), error |-> "none"]
    ELSE [success |-> FALSE, rowNumber |-> r, score |-> 0,
          isPossibleClient |-> "NO", error |-> task[r].lastError]

\* batchResults with the last row of the batch first
RECURSIVE BatchResultsReversed(_, _)
BatchResultsReversed(lo, hi) ==
    IF lo > hi THEN << >> ELSE <<TaskResult(hi)>> \o BatchResultsReversed(lo, hi - 1)

\* batchResults in batch order
RECURSIVE BatchResults(_, _)
BatchResults(lo, hi) ==
    IF lo > hi THEN << >> ELSE <<TaskResult(lo)>> \o BatchResults(lo + 1, hi)

\* the number of elements of s that satisfy P
CountIf(s, P(_)) == Cardinality({ k \in 1 .. Len(s) : P(s[k]) })

RECURSIVE SumScores(_)
SumScores(s) ==
    IF s = << >> THEN 0
    ELSE (IF Head(s).success THEN Head(s).score ELSE 0) + SumScores(Tail(s))

\* a barrier that does not wait for the flush a row task is awaiting
BatchSettledEarly == \A r \in Batch : task[r].pc \in {"ok", "failed", "flush"}

\* Promise.all(batchPromises) settles when every task of the batch returned
\* (it would reject as soon as one task rejected)
BatchSettled == \A r \in Batch : task[r].pc \in {"ok", "failed"}
BatchRejected == \E r \in Batch : task[r].pc = "rejected"

\* a progress update that is logged twice
ProgressUpdateTwice(prog, s, f, pc) ==
    prog \o << [processed |-> s + f, successful |-> s, failed |-> f, possibleClients |-> pc],
               [processed |-> s + f, successful |-> s, failed |-> f, possibleClients |-> pc] >>

\* "Batch complete: ${successful + failed}/${totalRows} processed" and the
\* statistics logged with it
ProgressUpdate(prog, s, f, pc) ==
    Append(prog, [processed |-> s + f, successful |-> s, failed |-> f,
                  possibleClients |-> pc])

\* await Promise.all; aggregate results; progress update; delay before the
\* next batch
ChunkComplete ==
    /\ ppc = "await"
    /\ BatchSettled \/ BatchRejected
    /\ IF BatchRejected
       THEN /\ ppc' = "aborted"
            /\ UNCHANGED <<i, results, successful, failed, possibleClients, totalScore,
                           progress>>
       ELSE LET br == BatchResults(BatchLo, BatchHi)
                IsOk(x) == x.success
                IsFail(x) == ~x.success
                IsYes(x) == x.success /\ x.isPossibleClient = "YES"
            IN /\ results' = results \o br
               /\ successful' = successful + CountIf(br, IsOk)
               /\ failed' = failed + CountIf(br, IsFail)
               /\ possibleClients' = possibleClients + CountIf(br, IsYes)
               /\ totalScore' = totalScore + SumScores(br)
               /\ progress' = ProgressUpdate(progress, successful', failed',
                                             possibleClients')
               /\ IF i + BATCH_SIZE < totalRows
                  THEN ppc' = "delay" /\ i' = i
                  ELSE ppc' = "loop" /\ i' = i + BATCH_SIZE
    /\ UNCHANGED <<dvars, svars, rvars, totalRows, BATCH_SIZE, tavilySearch, oracle, research, task, batchWriteBuffer,
                   flushing, headerWritten, writeCalls, pushed, faults>>

\* the 2 s delay between batches ends; i += BATCH_SIZE
DelayExpires ==
    /\ ppc = "delay"
    /\ i' = i + BATCH_SIZE
    /\ ppc' = "loop"
    /\ UNCHANGED <<dvars, svars, rvars, progress, totalRows, BATCH_SIZE, tavilySearch, oracle, research, task, batchWriteBuffer,
                   flushing, results, successful, failed, possibleClients,
                   totalScore, headerWritten, writeCalls, pushed, faults>>

\* after the loop: flush remaining writes, or return at once
FinalFlush ==
    /\ ppc = "loop"
    /\ i >= totalRows
    /\ IF Len(batchWriteBuffer) > 0
       THEN /\ flushing' = [flushing EXCEPT ![0] = batchWriteBuffer]
            /\ writeCalls' = IssueWrites(batchWriteBuffer, writeCalls)
            /\ ppc' = "finalflush"
       ELSE /\ ppc' = "done"
            /\ UNCHANGED <<flushing, writeCalls>>
    /\ UNCHANGED <<dvars, svars, rvars, progress, totalRows, BATCH_SIZE, tavilySearch, oracle, research, i, task, batchWriteBuffer,
                   results, successful, failed, possibleClients, totalScore,
                   headerWritten, pushed, faults>>

\* the final flush returns; the step returns its output
FinalFlushReturns ==
    /\ ppc = "finalflush"
    /\ flushing' = [flushing EXCEPT ![0] = << >>]
    /\ ppc' = "done"
    /\ UNCHANGED <<dvars, svars, rvars, progress, totalRows, BATCH_SIZE, tavilySearch, oracle, research, i, task, batchWriteBuffer,
                   results, successful, failed, possibleClients, totalScore,
                   headerWritten, writeCalls, pushed, faults>>

PNext ==
    \/ WriteHeaders
    \/ StartChunk
    \/ \E r \in RowNumbers : ReadRowOk(r)
    \/ \E r \in RowNumbers : ReadRowFails(r)
    \/ \E r \in RowNumbers : \E o \in research : SearchReturns(r, o)
    \/ \E r \in RowNumbers : \E resp \in oracle : ScoreReturns(r, resp)
    \/ \E r \in RowNumbers : ScoreThrows(r)
    \/ \E r \in RowNumbers : FlushReturns(r)
    \/ \E r \in RowNumbers : BackoffExpires(r)
    \/ ChunkComplete
    \/ DelayExpires
    \/ FinalFlush
    \/ FinalFlushReturns

(***************************************************************************)
(* Email dispatch: the leads loadLeadsStep hands over                      *)
(***************************************************************************)
\* rowNumber: index + 2 for the 0-based index of the data row
WithRowNumbers(f) ==
    [k \in DOMAIN f |->
        [rowNumber |-> k + 1, email |-> f[k].email, score |-> f[k].score,
         isPossibleClient |-> f[k].isPossibleClient, message |-> f[k].message,
         summary |-> f[k].summary, industry |-> f[k].industry]]

\* all sequences of at most n leads of a menu
LeadLists(menu, n) ==
    UNION { { WithRowNumbers(f) : f \in [1 .. m -> menu] } : m \in 0 .. n }

\* leads for applyFiltersStep: every combination of email, message and score,
\* and three sendable leads that differ in summary and industry
FilterLeadMenu ==
    { [email |-> e, message |-> m, score |-> sc, isPossibleClient |-> "NO",
       summary |-> Undefined, industry |-> Undefined] :
         e \in {Undefined, "lead@x.com"}, m \in {Undefined, "", "Hello"},
         sc \in {Absent, 0, 69, 70} }
    \cup
    { [email |-> "", message |-> "Hello", score |-> 85, isPossibleClient |-> "YES",
       summary |-> "Large Enterprise", industry |-> Undefined],
      [email |-> "lead@x.com", message |-> "Hello", score |-> 85, isPossibleClient |-> "YES",
       summary |-> "Large Enterprise", industry |-> "Retail"],
      [email |-> "lead@x.com", message |-> "Hello", score |-> 55, isPossibleClient |-> Undefined,
       summary |-> "saas startup", industry |-> "fintech"] }

\* ten sendable leads with the scores 95,80,72,69,50,71,30,100,65,70
ScenarioScores == <<95, 80, 72, 69, 50, 71, 30, 100, 65, 70>>
ScenarioLeads ==
    WithRowNumbers([k \in 1 .. Len(ScenarioScores) |->
        [email |-> "lead@x.com", message |-> "Hello", score |-> ScenarioScores[k],
         isPossibleClient |-> IF ScenarioScores[k] >= 60 THEN "YES" ELSE "NO",
         summary |-> Undefined, industry |-> Undefined]])

\* leads of a full dispatch run: one that can be sent to, one without email
DispatchLeadMenu ==
    { [email |-> "lead@x.com", message |-> "Hello", score |-> 85,
       isPossibleClient |-> "YES", summary |-> Undefined, industry |-> Undefined],
      [email |-> Undefined, message |-> "Hello", score |-> 85,
       isPossibleClient |-> "YES", summary |-> Undefined, industry |-> Undefined] }

\* the pipeline when no pipeline run was started
PIdle ==
    /\ totalRows = 0 /\ BATCH_SIZE = 1 /\ tavilySearch = FALSE
    /\ oracle = {} /\ research = {}
    /\ ppc = "idle" /\ i = 0
    /\ task = << >> /\ batchWriteBuffer = << >> /\ flushing = << >>
    /\ results = << >>
    /\ successful = 0 /\ failed = 0 /\ possibleClients = 0 /\ totalScore = 0
    /\ headerWritten = FALSE /\ writeCalls = << >> /\ pushed = {} /\ faults = 0
    /\ progress = << >>
    /\ connectCalls = 0
    /\ metadataResult = "none"
    /\ suggestedCompany = Undefined
    /\ schemaResume = NoSchemaResume
    /\ columnMapping = Undefined
    /\ planResume = NoPlanResume
    /\ summaryOut = NoOutput

\* the state of sendSingleEmail for one lead
IdleSend == [pc |-> "idle", attempt |-> 0, lastError |-> "none"]

\* the dispatch run after loadLeadsStep returned the given leads
DInit(ls) ==
    /\ PIdle
    /\ RIdle
    /\ statusWrites = 0
    /\ statusAccepted = 0
    /\ updateOut = NoOutput
    /\ report = NoOutput
    /\ dpc = "apply-filters"
    /\ leads \in ls
    /\ resumeData = NoResume
    /\ filteredLeads = << >>
    /\ warning = FALSE
    /\ confirmed = FALSE
    /\ subjectTemplate = Undefined
    /\ si = 0
    /\ stask = << >>
    /\ sendCalls = << >>
    /\ sresults = << >>
    /\ totalSent = 0 /\ totalFailed = 0
    /\ sfaults = 0

(***************************************************************************)
(* Email dispatch: applyFiltersStep                                        *)
(***************************************************************************)
\* JavaScript truthiness of an optional string and of an optional number
TruthyStr(x) == x # Undefined /\ x # ""
TruthyNum(n) == n # Absent /\ n # 0

\* String.prototype.toLowerCase on the texts of the model
ToLowerCase(t) == CASE t = "Large Enterprise" -> "large enterprise"
                    [] t = "Retail"           -> "retail"
                    [] OTHER                  -> t

\* the keywords that are substrings of a (lower-case) text
Substrings(t) == CASE t = "large enterprise" -> {"large", "enterprise"}
                   [] t = "saas startup"     -> {"saas", "startup"}
                   [] t = "fintech"          -> {"tech", "fintech"}
                   [] t = "retail"           -> {"retail"}
                   [] OTHER                  -> {}

\* String.prototype.includes
Includes(t, kw) == kw \in Substrings(t)

\* (l.industry || '').toLowerCase()
TextOf(x) == IF TruthyStr(x) THEN ToLowerCase(x) ELSE ""

detectCompanySize(summary) ==
    IF ~TruthyStr(summary) THEN "unknown"
    ELSE LET lowerSummary == ToLowerCase(summary)
         IN IF Includes(lowerSummary, "enterprise") \/ Includes(lowerSummary, "large")
               \/ Includes(lowerSummary, "fortune")
            THEN "large"
            ELSE IF Includes(lowerSummary, "startup") \/ Includes(lowerSummary, "small")
                 THEN "small"
                 ELSE "medium"

\* a base filter that forgets the message
IsSendableEmailOnly(l) == TruthyStr(l.email)

\* leads.filter(l => l.email && l.message)
IsSendable(l) == TruthyStr(l.email) /\ TruthyStr(l.message)
BaseFilter(ls) == SelectSeq(ls, IsSendable)

\* an exclusive boundary
HighScoreTestExclusive(l) == TruthyNum(l.score) /\ l.score > 70

\* l.score && l.score >= 70
HighScoreTest(l) == TruthyNum(l.score) /\ l.score >= 70

\* l.score && l.score >= 50 && l.score < 70
MediumScoreTest(l) == TruthyNum(l.score) /\ l.score >= 50 /\ l.score < 70

TechSectorTest(l) ==
    LET industry == TextOf(l.industry)
        summary == TextOf(l.summary)
    IN \/ Includes(industry, "tech") \/ Includes(industry, "software")
       \/ Includes(industry, "saas")
       \/ Includes(summary, "technology") \/ Includes(summary, "software")
       \/ Includes(summary, "saas")

\* resumeData.customMinScore || 0 ; resumeData.customMaxScore || 100
CustomMin(rd) == IF TruthyNum(rd.customMinScore) THEN rd.customMinScore ELSE 0
CustomMax(rd) == IF TruthyNum(rd.customMaxScore) THEN rd.customMaxScore ELSE 100

\* case 'custom'
CustomFilter(ls, rd) ==
    LET InRange(l) == TruthyNum(l.score) /\ l.score >= CustomMin(rd)
                      /\ l.score <= CustomMax(rd)
        byScore == SelectSeq(ls, InRange)
        industryFilter == ToLowerCase(rd.customIndustry)
        InIndustry(l) == \/ Includes(TextOf(l.industry), industryFilter)
                         \/ Includes(TextOf(l.summary), industryFilter)
    IN IF TruthyStr(rd.customIndustry) THEN SelectSeq(byScore, InIndustry) ELSE byScore

\* the switch over resumeData.selectedFilter, applied to the base filter
SwitchFilter(ls, rd) ==
    LET IsYes(l) == l.isPossibleClient = "YES"
        IsLarge(l) == detectCompanySize(l.summary) = "large"
    IN CASE rd.selectedFilter = "all"              -> ls
         [] rd.selectedFilter = "possible-clients" -> SelectSeq(ls, IsYes)
         [] rd.selectedFilter = "high-score"       -> SelectSeq(ls, HighScoreTest)
         [] rd.selectedFilter = "medium-score"     -> SelectSeq(ls, MediumScoreTest)
         [] rd.selectedFilter = "large-companies"  -> SelectSeq(ls, IsLarge)
         [] rd.selectedFilter = "tech-sector"      -> SelectSeq(ls, TechSectorTest)
         [] rd.selectedFilter = "custom"           -> CustomFilter(ls, rd)

\* applyFiltersStep.execute after the suspend check: base filter, switch,
\* onlyWithEmail, and the final type guard
ApplyFilters(ls, rd) ==
    LET HasEmail(l) == TruthyStr(l.email)
        IsTyped(l) == l.email # Undefined /\ l.message # Undefined
        switched == SwitchFilter(BaseFilter(ls), rd)
        withEmail == IF rd.onlyWithEmail THEN SelectSeq(switched, HasEmail) ELSE switched
    IN SelectSeq(withEmail, IsTyped)

Filters == {"all", "possible-clients", "high-score", "medium-score",
            "large-companies", "tech-sector", "custom"}

\* the resume payloads of applyFiltersStep that the model tries
FilterResumes ==
    { [selectedFilter |-> f, customMinScore |-> Absent, customMaxScore |-> Absent,
       customIndustry |-> Undefined, onlyWithEmail |-> o] :
         f \in Filters \ {"custom"}, o \in BOOLEAN }
    \cup
    { [selectedFilter |-> "custom", customMinScore |-> lo, customMaxScore |-> hi,
       customIndustry |-> ind, onlyWithEmail |-> FALSE] :
         lo \in {Absent, 0, 70}, hi \in {Absent, 0, 69}, ind \in {Undefined, "tech", "Retail"} }

\* the resume payloads of applyFiltersStep in a full dispatch run
DispatchResumes ==
    { rd \in FilterResumes : rd.selectedFilter \in {"all", "high-score"} /\ ~rd.onlyWithEmail }

\* loadLeadsStep returned: applyFiltersStep runs without resumeData and suspends
ApplyFiltersSuspend ==
    /\ dpc = "apply-filters"
    /\ dpc' = "apply-filters-suspended"
    /\ UNCHANGED <<pvars, svars, rvars, uvars, leads, resumeData, filteredLeads, warning, confirmed,
                   subjectTemplate, si, stask, sendCalls, sresults, totalSent,
                   totalFailed, sfaults>>

\* applyFiltersStep resumed: without selectedFilter it suspends again,
\* otherwise it filters and previewEmailsStep runs next
ResumeApplyFilters(rd) ==
    /\ dpc = "apply-filters-suspended"
    /\ resumeData' = rd
    /\ IF rd.selectedFilter = Undefined
       THEN UNCHANGED <<dpc, filteredLeads>>
       ELSE /\ filteredLeads' = ApplyFilters(leads, rd)
            /\ dpc' = "preview-emails"
    /\ UNCHANGED <<pvars, svars, rvars, uvars, leads, warning, confirmed, subjectTemplate, si, stask,
                   sendCalls, sresults, totalSent, totalFailed, sfaults>>

(***************************************************************************)
(* Email dispatch: previewEmailsStep                                       *)
(***************************************************************************)
\* `const GMAIL_DAILY_LIMIT = 500` (oauth-setup-workflow.ts:806) scaled down so
\* that a run of MaxSendLeads leads exceeds it; the code only compares the
\* number of filtered leads against it
GMAIL_DAILY_LIMIT == 2

\* a warning that comes one lead late
PreviewWarningLate(ls) == Len(ls) > GMAIL_DAILY_LIMIT + 1

\* filteredLeads.length > GMAIL_DAILY_LIMIT ? warning text : undefined
PreviewWarning(ls) == Len(ls) > GMAIL_DAILY_LIMIT

\* a preview step that proceeds on any resume
PreviewProceedsAlways(resume) == TRUE

\* if (!resumeData?.confirmed) return await suspend(...)
PreviewProceeds(resume) == resume.confirmed = TRUE

\* resumeData.customSubjectTemplate || defaultSubject
SubjectTemplate(resume) ==
    IF TruthyStr(resume.customSubjectTemplate) THEN resume.customSubjectTemplate
    ELSE "Opportunity for {company}"

PreviewResumes ==
    { [confirmed |-> c, customSubjectTemplate |-> t] :
         c \in BOOLEAN, t \in {Undefined, "Hello {company}"} }

\* previewEmailsStep runs without resumeData: sample, warning, suspend
PreviewEmailsSuspend ==
    /\ dpc = "preview-emails"
    /\ warning' = PreviewWarning(filteredLeads)
    /\ dpc' = "preview-emails-suspended"
    /\ UNCHANGED <<pvars, svars, rvars, uvars, leads, resumeData, filteredLeads, confirmed,
                   subjectTemplate, si, stask, sendCalls, sresults, totalSent,
                   totalFailed, sfaults>>

\* previewEmailsStep resumed: unless confirmed it suspends again, otherwise
\* sendEmailsStep runs next
ResumePreviewEmails(resume) ==
    /\ dpc = "preview-emails-suspended"
    /\ warning' = PreviewWarning(filteredLeads)
    /\ IF PreviewProceeds(resume)
       THEN /\ confirmed' = (resume.confirmed = TRUE)
            /\ subjectTemplate' = SubjectTemplate(resume)
            /\ dpc' = "send-loop"
            /\ stask' = [k \in 1 .. Len(filteredLeads) |-> IdleSend]
            /\ sendCalls' = [k \in 1 .. Len(filteredLeads) |-> 0]
       ELSE UNCHANGED <<confirmed, subjectTemplate, dpc, stask, sendCalls>>
    /\ UNCHANGED <<pvars, svars, rvars, uvars, leads, resumeData, filteredLeads, si, sresults,
                   totalSent, totalFailed, sfaults>>

(***************************************************************************)
(* Email dispatch: sendEmailsStep                                          *)
(***************************************************************************)
\* a batch that is one lead short of the step of the loop
SendBatchHiShort == Min(si + SEND_BATCH_SIZE - 1, Len(filteredLeads))

\* 1-based positions in filteredLeads of filteredLeads.slice(i, i + BATCH_SIZE)
SendBatchHi == Min(si + SEND_BATCH_SIZE, Len(filteredLeads))
SendBatch == (si + 1) .. SendBatchHi

\* a catch block that allows one attempt more
CatchSendErrorExtraAttempt(t, err) ==
    IF t.attempt < SEND_MAX_RETRIES + 1
    THEN [t EXCEPT !.pc = "backoff", !.lastError = err]
    ELSE [t EXCEPT !.pc = "failed", !.lastError = err]

\* catch (error) in sendSingleEmail: retry after a backoff while
\* attempt < MAX_RETRIES, else return the failed result
CatchSendError(t, err) ==
    IF t.attempt < SEND_MAX_RETRIES
    THEN [t EXCEPT !.pc = "backoff", !.lastError = err]
    ELSE [t EXCEPT !.pc = "failed", !.lastError = err]

\* batch.map((lead, index) => sendSingleEmail(lead, index * STAGGER_DELAY)):
\* index 0 has no delay and issues its send at once, the others wait
SendStartBatch ==
    /\ dpc = "send-loop"
    /\ si < Len(filteredLeads)
    /\ stask' = [k \in DOMAIN stask |->
                   IF k = si + 1 THEN [IdleSend EXCEPT !.pc = "sending", !.attempt = 1]
                   ELSE IF k \in SendBatch THEN [IdleSend EXCEPT !.pc = "stagger"]
                   ELSE stask[k]]
    /\ sendCalls' = [sendCalls EXCEPT ![si + 1] = @ + 1]
    /\ dpc' = "send-await"
    /\ UNCHANGED <<pvars, svars, rvars, uvars, leads, resumeData, filteredLeads, warning, confirmed,
                   subjectTemplate, si, sresults, totalSent, totalFailed, sfaults>>

\* stagger timers that fire in any order
StaggerDueAnyOrder(k) == stask[k].pc = "stagger"

\* setTimeout(resolve, index * STAGGER_DELAY), the timers of a batch being
\* set in index order within one synchronous batch.map: the timer of task k
\* is the next to fire when no task before it in the batch still waits
StaggerDue(k) ==
    /\ stask[k].pc = "stagger"
    /\ \A j \in SendBatch : j < k => stask[j].pc # "stagger"

\* the stagger timer of task k fires: attempt 1 issues its send call
StaggerExpires(k) ==
    /\ dpc = "send-await"
    /\ k \in SendBatch
    /\ StaggerDue(k)
    /\ stask' = [stask EXCEPT ![k] = [@ EXCEPT !.pc = "sending", !.attempt = 1]]
    /\ sendCalls' = [sendCalls EXCEPT ![k] = @ + 1]
    /\ UNCHANGED <<pvars, svars, rvars, uvars, dpc, leads, resumeData, filteredLeads, warning, confirmed,
                   subjectTemplate, si, sresults, totalSent, totalFailed, sfaults>>

\* gmailSenderTool.execute returned success
SendSucceeds(k) ==
    /\ dpc = "send-await"
    /\ k \in DOMAIN stask
    /\ stask[k].pc = "sending"
    /\ stask' = [stask EXCEPT ![k] = [@ EXCEPT !.pc = "sent"]]
    /\ UNCHANGED <<pvars, svars, rvars, uvars, dpc, leads, resumeData, filteredLeads, warning, confirmed,
                   subjectTemplate, si, sendCalls, sresults, totalSent,
                   totalFailed, sfaults>>

\* gmailSenderTool.execute returned success = false or threw
SendFails(k, err) ==
    /\ dpc = "send-await"
    /\ k \in DOMAIN stask
    /\ stask[k].pc = "sending"
    /\ sfaults < MaxSendFaults
    /\ sfaults' = sfaults + 1
    /\ stask' = [stask EXCEPT ![k] = CatchSendError(@, err)]
    /\ UNCHANGED <<pvars, svars, rvars, uvars, dpc, leads, resumeData, filteredLeads, warning, confirmed,
                   subjectTemplate, si, sendCalls, sresults, totalSent, totalFailed>>

\* the backoff timer fires: next attempt issues its send call
SendBackoffExpires(k) ==
    /\ dpc = "send-await"
    /\ k \in DOMAIN stask
    /\ stask[k].pc = "backoff"
    /\ stask' = [stask EXCEPT ![k] = [@ EXCEPT !.pc = "sending", !.attempt = @ + 1]]
    /\ sendCalls' = [sendCalls EXCEPT ![k] = @ + 1]
    /\ UNCHANGED <<pvars, svars, rvars, uvars, dpc, leads, resumeData, filteredLeads, warning, confirmed,
                   subjectTemplate, si, sresults, totalSent, totalFailed, sfaults>>

\* the value sendSingleEmail returns for position k
SendResult(k) ==
    [rowNumber |-> filteredLeads[k].rowNumber,
     email |-> filteredLeads[k].email,
     status |-> stask[k].pc,
     error |-> IF stask[k].pc = "failed" THEN stask[k].lastError ELSE Undefined]

RECURSIVE SendResults(_, _)
SendResults(lo, hi) ==
    IF lo > hi THEN << >> ELSE <<SendResult(lo)>> \o SendResults(lo + 1, hi)

\* await Promise.all(batchPromises); aggregate; delay before the next batch
SendBatchComplete ==
    /\ dpc = "send-await"
    /\ \A k \in SendBatch : stask[k].pc \in {"sent", "failed"}
    /\ LET br == SendResults(si + 1, SendBatchHi)
           IsSent(x) == x.status = "sent"
           IsFailed(x) == x.status # "sent"
       IN /\ sresults' = sresults \o br
          /\ totalSent' = totalSent + CountIf(br, IsSent)
          /\ totalFailed' = totalFailed + CountIf(br, IsFailed)
    /\ IF si + SEND_BATCH_SIZE < Len(filteredLeads)
       THEN dpc' = "send-delay" /\ si' = si
       ELSE dpc' = "send-loop" /\ si' = si + SEND_BATCH_SIZE
    /\ UNCHANGED <<pvars, svars, rvars, uvars, leads, resumeData, filteredLeads, warning, confirmed,
                   subjectTemplate, stask, sendCalls, sfaults>>

\* the 3 s delay between send batches ends
SendDelayExpires ==
    /\ dpc = "send-delay"
    /\ si' = si + SEND_BATCH_SIZE
    /\ dpc' = "send-loop"
    /\ UNCHANGED <<pvars, svars, rvars, uvars, leads, resumeData, filteredLeads, warning, confirmed,
                   subjectTemplate, stask, sendCalls, sresults, totalSent,
                   totalFailed, sfaults>>

\* the loop ended: sendEmailsStep returns, updateSendStatusStep runs next
SendEmailsReturns ==
    /\ dpc = "send-loop"
    /\ si >= Len(filteredLeads)
    /\ dpc' = "update-send-status"
    /\ UNCHANGED <<pvars, svars, rvars, uvars, leads, resumeData, filteredLeads, warning, confirmed,
                   subjectTemplate, si, stask, sendCalls, sresults, totalSent,
                   totalFailed, sfaults>>

(***************************************************************************)
(* Email dispatch: updateSendStatusStep and generateDispatchReportStep     *)
(***************************************************************************)
\* an update step that forgets the dispatch outcome when a write throws
UpdateOutputDropsOnFailure(sent, nfailed, res, updated) ==
    [returned |-> TRUE, totalSent |-> IF updated THEN sent ELSE 0,
     totalFailed |-> IF updated THEN nfailed ELSE 0,
     results |-> IF updated THEN res ELSE << >>, sheetUpdated |-> updated]

\* return { ...inputData, sheetUpdated }
UpdateOutput(sent, nfailed, res, updated) ==
    [returned |-> TRUE, totalSent |-> sent, totalFailed |-> nfailed,
     results |-> res, sheetUpdated |-> updated]

\* updateSendStatusStep builds one write per result and issues the first one;
\* without results it returns at once
UpdateSendStatusStarts ==
    /\ dpc = "update-send-status"
    /\ IF Len(sresults) = 0
       THEN /\ updateOut' = UpdateOutput(totalSent, totalFailed, sresults, TRUE)
            /\ dpc' = "generate-report"
            /\ UNCHANGED statusWrites
       ELSE /\ statusWrites' = 1
            /\ dpc' = "update-await"
            /\ UNCHANGED updateOut
    /\ UNCHANGED <<pvars, svars, rvars, leads, resumeData, filteredLeads, warning,
                   confirmed, subjectTemplate, si, stask, sendCalls, sresults,
                   totalSent, totalFailed, sfaults, report, statusAccepted>>

\* what a status write may do: the writer tool returns success, returns
\* success = false (the step does not look at the return value), or the call
\* throws
StatusWriteOutcomes == {"ok", "rejected", "throws"}

\* the awaited status write ends: the next write is issued, or the step
\* returns with sheetUpdated = true; a throw goes to the catch block, which
\* returns with sheetUpdated = false
StatusWriteReturns(outcome) ==
    /\ dpc = "update-await"
    /\ statusAccepted' = IF outcome = "ok" THEN statusAccepted + 1 ELSE statusAccepted
    /\ IF outcome = "throws"
       THEN /\ updateOut' = UpdateOutput(totalSent, totalFailed, sresults, FALSE)
            /\ dpc' = "generate-report"
            /\ UNCHANGED statusWrites
       ELSE IF statusWrites < Len(sresults)
            THEN /\ statusWrites' = statusWrites + 1
                 /\ UNCHANGED <<dpc, updateOut>>
            ELSE /\ updateOut' = UpdateOutput(totalSent, totalFailed, sresults, TRUE)
                 /\ dpc' = "generate-report"
                 /\ UNCHANGED statusWrites
    /\ UNCHANGED <<pvars, svars, rvars, leads, resumeData, filteredLeads, warning,
                   confirmed, subjectTemplate, si, stask, sendCalls, sresults,
                   totalSent, totalFailed, sfaults, report>>

\* a failure section that lists every failure
FailureSectionUncapped(list) == [count |-> Len(list), lines |-> list, more |-> 0]

\* the failure section of a summary text: nothing without failures, else the
\* number of failures, the lines of list.slice(0, 5) and, for more than 5,
\* the line `... and ${list.length - 5} more` (more = 0: no such line)
FailureSection(list) ==
    [count |-> Len(list),
     lines |-> SubSeq(list, 1, Min(Len(list), 5)),
     more  |-> IF Len(list) > 5 THEN Len(list) - 5 ELSE 0]

\* Math.round((totalSent / total) * 100), 0 when total is 0
SuccessRate(sent, total) ==
    IF total > 0 THEN (200 * sent + total) \div (2 * total) ELSE 0

\* the output of generateDispatchReportStep for the output of the update step
DispatchReport(in) ==
    LET IsSent(x) == x.status = "sent"
        IsFailed(x) == x.status = "failed"
        sent == SelectSeq(in.results, IsSent)
        notSent == SelectSeq(in.results, IsFailed)
        failedEmails == [k \in DOMAIN notSent |->
                            [email |-> notSent[k].email,
                             error |-> IF TruthyStr(notSent[k].error)
                                       THEN notSent[k].error ELSE "Unknown error"]]
    IN [returned |-> TRUE,
        summary |-> [total |-> in.totalSent + in.totalFailed,
                     totalSent |-> in.totalSent, totalFailed |-> in.totalFailed,
                     successRate |-> SuccessRate(in.totalSent,
                                                 in.totalSent + in.totalFailed),
                     errors |-> FailureSection(failedEmails)],
        totalSent |-> in.totalSent,
        totalFailed |-> in.totalFailed,
        successRate |-> SuccessRate(in.totalSent, in.totalSent + in.totalFailed),
        sentEmails |-> [k \in DOMAIN sent |-> [email |-> sent[k].email]],
        failedEmails |-> failedEmails]

\* generateDispatchReportStep runs on the output of updateSendStatusStep
GenerateDispatchReport ==
    /\ dpc = "generate-report"
    /\ report' = DispatchReport(updateOut)
    /\ dpc' = "done"
    /\ UNCHANGED <<pvars, svars, rvars, leads, resumeData, filteredLeads, warning,
                   confirmed, subjectTemplate, si, stask, sendCalls, sresults,
                   totalSent, totalFailed, sfaults, statusWrites, statusAccepted,
                   updateOut>>

\* applyFiltersStep alone
FilterNext ==
    \/ ApplyFiltersSuspend
    \/ \E rd \in FilterResumes \cup {NoResume} : ResumeApplyFilters(rd)

\* the dispatch run from its first suspend point on
DNext ==
    \/ ApplyFiltersSuspend
    \/ \E rd \in DispatchResumes \cup {NoResume} : ResumeApplyFilters(rd)
    \/ PreviewEmailsSuspend
    \/ \E resume \in PreviewResumes : ResumePreviewEmails(resume)
    \/ SendStartBatch
    \/ \E k \in DOMAIN stask : StaggerExpires(k)
    \/ \E k \in DOMAIN stask : SendSucceeds(k)
    \/ \E k \in DOMAIN stask : \E err \in {"send failed", "Unknown error"} : SendFails(k, err)
    \/ \E k \in DOMAIN stask : SendBackoffExpires(k)
    \/ SendBatchComplete
    \/ SendDelayExpires
    \/ SendEmailsReturns
    \/ UpdateSendStatusStarts
    \/ \E outcome \in StatusWriteOutcomes : StatusWriteReturns(outcome)
    \/ GenerateDispatchReport

\* applyFiltersStep over every list of at most MaxLeads leads and the scenario
FilterInit == DInit(LeadLists(FilterLeadMenu, MaxLeads) \cup {ScenarioLeads})
SpecFilter == FilterInit /\ [][FilterNext]_vars

\* dispatch runs over at most MaxSendLeads leads
DispatchInit == DInit(LeadLists(DispatchLeadMenu, MaxSendLeads))
SpecDispatch == DispatchInit /\ [][DNext]_vars

\* the workflow engine runs a step as soon as the step before it returned
SpecDispatchLive ==
    /\ DispatchInit
    /\ [][DNext]_vars
    /\ WF_vars(UpdateSendStatusStarts)
    /\ WF_vars(GenerateDispatchReport)

(***************************************************************************)
(* googleSheetsReaderTool in mode 'row'                                    *)
(***************************************************************************)
\* JavaScript null as the value of a key
Null == "<null>"

\* a row of the grid without its trailing empty cells
RECURSIVE TrimTrailing(_)
TrimTrailing(row) ==
    IF row = << >> THEN << >>
    ELSE IF row[Len(row)] = "" THEN TrimTrailing(SubSeq(row, 1, Len(row) - 1))
         ELSE row

\* response.data.values || [] for the range `${rowNumber}:${rowNumber}`: the
\* one row without its trailing empty cells, nothing for a row without values
ApiValues(sh, r) ==
    IF r > Len(sh) THEN << >>
    ELSE IF TrimTrailing(sh[r]) = << >> THEN << >> ELSE << TrimTrailing(sh[r]) >>

\* the object built by headers.forEach((header, index) =>
\*   rowObject[header] = rowData[index] || null): a later index overwrites an
\* earlier one with the same header
RowObject(headers, rowData) ==
    [h \in { headers[k] : k \in DOMAIN headers } |->
        LET last == CHOOSE k \in DOMAIN headers :
                       headers[k] = h /\ \A j \in DOMAIN headers : headers[j] = h => j <= k
        IN IF last \in DOMAIN rowData /\ rowData[last] # "" THEN rowData[last] ELSE Null]

\* what the tool returns in mode 'row' with the default includeHeaders = true
\* and skipEmptyRows = false: headers is the first row of the data that was
\* read, and so is rowData
ReadRowMode(sh, r) ==
    LET data == ApiValues(sh, r)
    IN IF Len(data) = 0
       THEN [returned |-> TRUE, success |-> TRUE, hasRow |-> FALSE, row |-> << >>,
             rowIndex |-> r]
       ELSE LET headers == data[1]
                rowData == data[1]
            IN [returned |-> TRUE, success |-> TRUE, hasRow |-> TRUE,
                row |-> IF r = 1 THEN RowObject(headers, headers)
                        ELSE RowObject(headers, rowData),
                rowIndex |-> r]

\* leadData[columnMapping.companyColumn] || 'Unknown Company'
CompanyName(leadData, companyColumn) ==
    IF companyColumn \in DOMAIN leadData /\ leadData[companyColumn] \notin {Null, ""}
    THEN leadData[companyColumn]
    ELSE "Unknown Company"

\* the cells a sheet of the model may hold in a data row
SheetCells == {"", "Acme", "contact@acme.com", "Company"}

\* sheets with a header row and up to MaxSheetRows data rows of two columns
Sheets ==
    UNION { { <<hd>> \o rows :
                hd \in { <<"Company", "Email">>, <<"Email", "Company">> },
                rows \in [1 .. n -> [1 .. 2 -> SheetCells]] } :
            n \in 1 .. MaxSheetRows }

\* processLeadsStep reads row r in mode 'row'; the pipeline runs before the
\* dispatch run is started
ReadRow(r) ==
    /\ dpc = "idle"
    /\ rowResult' = ReadRowMode(sheet, r)
    /\ UNCHANGED <<pvars, svars, dvars, sheet, columnCount>>

\* the four headers processLeadsStep writes into row 1
ResultHeaders == <<"SDR Summary", "Score (0-100)", "Possible Client?", "Personalized Message">>

\* newColumnStart = columnCount + 1
NewColumnStart == columnCount + 1

\* the writer tool in mode 'update' with one row of values for the range
\* `${col}${r}:${col + 3}${r}`: the cells of row r from column col on are
\* replaced, the cells before them are kept (an empty cell where the row was
\* shorter).  The cells are held as the text a read returns for them.
WriteRange(sh, r, col, vals) ==
    [sh EXCEPT ![r] =
        [c \in 1 .. (col + Len(vals) - 1) |->
            IF c >= col THEN vals[c - col + 1]
            ELSE IF c <= Len(sh[r]) THEN sh[r][c] ELSE ""]]

\* processLeadsStep writes the result headers into row 1
WriteHeaderRow ==
    /\ dpc = "idle"
    /\ sheet' = WriteRange(sheet, 1, NewColumnStart, ResultHeaders)
    /\ UNCHANGED <<pvars, svars, dvars, rowResult, columnCount>>

\* flushBatchWrites writes the buffered values of data row r, after the
\* headers were written
WriteResultRow(r, resp) ==
    /\ dpc = "idle"
    /\ Len(sheet[1]) >= NewColumnStart + 3
    /\ r \in 2 .. Len(sheet)
    /\ sheet' = WriteRange(sheet, r, NewColumnStart, BufferEntry(r, resp).values)
    /\ UNCHANGED <<pvars, svars, dvars, rowResult, columnCount>>
(***************************************************************************)
(* loadLeadsStep: the sheet as the dispatch run sees it                    *)
(***************************************************************************)
\* row.some(cell => cell !== null && cell !== undefined && cell !== '')
HasCell(row) == \E c \in DOMAIN row : row[c] # ""

\* the reader tool with skipEmptyRows: data.filter(row => row && row.some(...))
SkipEmptyRows(data) == SelectSeq(data, HasCell)

\* the headers of the model whose lower-case text includes one of the aliases
\* loadLeadsStep looks for
FieldHeaders(field) ==
    CASE field = "email"    -> {"Email"}
      [] field = "company"  -> {"Company"}
      [] field = "score"    -> {"Score (0-100)"}
      [] field = "possible" -> {"Possible Client?"}
      [] field = "message"  -> {"Personalized Message"}
      [] field = "summary"  -> {"SDR Summary"}
      [] OTHER              -> {}

\* findColumn: the first key of the row object that matches, in the order of
\* the headers; 0 when there is none
FindColumn(headers, field) ==
    LET hits == { k \in DOMAIN headers : headers[k] \in FieldHeaders(field) }
    IN IF hits = {} THEN 0 ELSE CHOOSE k \in hits : \A j \in hits : k <= j

\* key ? row[key] : undefined, with null (an empty cell) held as undefined
FieldOf(headers, obj, field) ==
    LET k == FindColumn(headers, field)
    IN IF k = 0 \/ obj[headers[k]] = Null THEN Undefined ELSE obj[headers[k]]

\* parseInt(text, 10) on the cell texts of the model; NaN is held as Absent
ParseIntCell(t) ==
    IF \E n \in 0 .. 150 : ToString(n) = t
    THEN CHOOSE n \in 0 .. 150 : ToString(n) = t
    ELSE Absent

\* the lead built from the row object at the 0-based index of dataObjects
LeadOf(headers, obj, index) ==
    LET scoreText == FieldOf(headers, obj, "score")
        possible == FieldOf(headers, obj, "possible")
    IN [rowNumber |-> index + 2,
        email |-> FieldOf(headers, obj, "email"),
        score |-> IF scoreText # Undefined THEN ParseIntCell(scoreText) ELSE Absent,
        isPossibleClient |-> IF possible = "YES" THEN "YES"
                             ELSE IF possible = "NO" THEN "NO" ELSE Undefined,
        message |-> FieldOf(headers, obj, "message"),
        summary |-> FieldOf(headers, obj, "summary"),
        industry |-> FieldOf(headers, obj, "industry")]

\* mode 'full' with parseAsObjects and skipEmptyRows, then dataObjects.map
LoadedLeads(sh) ==
    LET data == SkipEmptyRows(sh)
    IN IF Len(data) = 0 THEN << >>
       ELSE [k \in 1 .. (Len(data) - 1) |->
                LeadOf(data[1], RowObject(data[1], data[k + 1]), k - 1)]

\* loadLeadsStep returns; applyFiltersStep runs next
LoadLeads ==
    /\ dpc = "idle"
    /\ leads' = LoadedLeads(sheet)
    /\ dpc' = "apply-filters"
    /\ UNCHANGED <<pvars, svars, rvars, uvars, resumeData, filteredLeads, warning,
                   confirmed, subjectTemplate, si, stask, sendCalls, sresults,
                   totalSent, totalFailed, sfaults>>

\* statusCol = 'G'
StatusColumn == 7

\* the status texts and the send date of the model
StatusTexts == {"Sent", "Failed: Unknown error"}
SendDate == "2026-01-01"

\* updateSendStatusStep writes `G${rowNumber}:H${rowNumber}` for its next
\* result, here in a run with the filter 'all' in which every lead that
\* passed was sent or failed: the results are the sendable leads, in order
WriteStatusRow(statusText) ==
    /\ dpc = "apply-filters"
    /\ statusWrites < Len(BaseFilter(leads))
    /\ LET result == BaseFilter(leads)[statusWrites + 1]
       IN sheet' = WriteRange(sheet, result.rowNumber, StatusColumn,
                              <<statusText, SendDate>>)
    /\ statusWrites' = statusWrites + 1
    /\ UNCHANGED <<pvars, svars, rowResult, columnCount, dpc, leads, resumeData,
                   filteredLeads, warning, confirmed, subjectTemplate, si, stask,
                   sendCalls, sresults, totalSent, totalFailed, sfaults,
                   statusAccepted, updateOut, report>>

\* C36: a status write of the dispatch run keeps every cell of the lead
\* columns and of the four result columns columnCount+1 .. columnCount+4
C36_StatusKeepsResults ==
    [][statusWrites' > statusWrites =>
         \A r \in DOMAIN sheet : \A c \in 1 .. (columnCount + 4) :
             c \in DOMAIN sheet[r] => sheet'[r][c] = sheet[r][c]]_vars

\* C35: every loaded lead carries the number of the sheet row its fields were
\* read from: the email of the lead is the email cell of row rowNumber
C35_RowNumberIsSheetRow ==
    \A k \in DOMAIN leads :
        LET r == leads[k].rowNumber
            col == FindColumn(sheet[1], "email")
        IN /\ r \in DOMAIN sheet
           /\ col # 0 =>
                leads[k].email = (IF col \in DOMAIN sheet[r] /\ sheet[r][col] # ""
                                  THEN sheet[r][col] ELSE Undefined)


ReaderInit ==
    /\ PIdle
    /\ DIdle
    /\ sheet \in Sheets
    /\ rowResult = NoOutput
    /\ columnCount \in 2 .. (2 + MaxSpareColumns)

ReaderNext ==
    \/ \E r \in 1 .. (MaxSheetRows + 2) : ReadRow(r)
    \/ LoadLeads
    \/ \E statusText \in StatusTexts : WriteStatusRow(statusText)
    \/ WriteHeaderRow
    \/ \E r \in 2 .. (MaxSheetRows + 1) :
          \E resp \in {FullResponse, [FullResponse EXCEPT !.message = "none"]} :
             WriteResultRow(r, resp)

SpecReader == ReaderInit /\ [][ReaderNext]_vars

(***************************************************************************)
(* Lead research workflow: the steps around processLeadsStep               *)
(***************************************************************************)
\* a connection check that tries again after a failed metadata call
AfterMetadataRetry(ok) == IF ok THEN "explore-structure" ELSE "validate-connection"

\* validateConnectionStep after its metadata call: it returns, or it throws
\* 'Connection failed: ...'
AfterMetadata(ok) == IF ok THEN "explore-structure" ELSE "connection-failed"

\* validateConnectionStep: one metadata call; no success or no first sheet
\* (or an exception of the call) makes the step throw
ValidateConnection(ok) ==
    /\ ppc = "validate-connection"
    /\ connectCalls' = connectCalls + 1
    /\ metadataResult' = IF ok THEN "ok" ELSE "failed"
    /\ ppc' = AfterMetadata(ok)
    /\ UNCHANGED <<dvars, rvars, progress, totalRows, BATCH_SIZE, tavilySearch, oracle,
                   research, i, task, batchWriteBuffer, flushing, results, successful,
                   failed, possibleClients, totalScore, headerWritten, writeCalls,
                   pushed, faults, suggestedCompany, schemaResume, columnMapping,
                   planResume, summaryOut>>

\* exploreStructureStep runs for the first time: it reads the metadata, the
\* headers and the sample rows and suspends; a failed read makes it throw
ExploreStructure(ok) ==
    /\ ppc = "explore-structure"
    /\ ppc' = IF ok THEN "explore-suspended" ELSE "explore-failed"
    /\ UNCHANGED <<dvars, svars, rvars, progress, totalRows, BATCH_SIZE, tavilySearch,
                   oracle, research, i, task, batchWriteBuffer, flushing, results,
                   successful, failed, possibleClients, totalScore, headerWritten,
                   writeCalls, pushed, faults>>

\* a mapping that falls back to the suggestion when the custom mapping has no
\* company column
FinalMappingFallsBack(resume, suggested) ==
    IF resume.customMapping.given /\ TruthyStr(resume.customMapping.companyColumn)
    THEN resume.customMapping.companyColumn
    ELSE suggested

\* (resumeData.customMapping || suggestedMapping).companyColumn
FinalMapping(resume, suggested) ==
    IF resume.customMapping.given THEN resume.customMapping.companyColumn ELSE suggested

\* the mappings a resume payload may carry
CustomMappings ==
    {NoMapping} \cup { [given |-> TRUE, companyColumn |-> col] : col \in {Undefined, "", "Name"} }

\* the resume payloads of exploreStructureStep that the model tries: with
\* `confirmed` true or false, and without `confirmed`
SchemaResumes ==
    { [hasConfirmed |-> TRUE, confirmed |-> c, customMapping |-> cm] :
        c \in BOOLEAN, cm \in CustomMappings }
    \cup
    { [hasConfirmed |-> FALSE, confirmed |-> FALSE, customMapping |-> cm] :
        cm \in CustomMappings }

\* exploreStructureStep resumed: it reads again, suspends again unless
\* confirmed, throws when the final mapping has no company column, and
\* otherwise returns the mapping
ResumeExploreStructure(resume, ok) ==
    /\ ppc = "explore-suspended"
    /\ schemaResume' = resume
    /\ IF ~ok
       THEN ppc' = "explore-failed" /\ UNCHANGED columnMapping
       ELSE IF resume.confirmed # TRUE
            THEN UNCHANGED <<ppc, columnMapping>>
            ELSE IF ~TruthyStr(FinalMapping(resume, suggestedCompany))
                 THEN ppc' = "explore-failed" /\ UNCHANGED columnMapping
                 ELSE /\ columnMapping' = FinalMapping(resume, suggestedCompany)
                      /\ ppc' = "create-plan"
    /\ UNCHANGED <<dvars, rvars, progress, totalRows, BATCH_SIZE, tavilySearch, oracle,
                   research, i, task, batchWriteBuffer, flushing, results, successful,
                   failed, possibleClients, totalScore, headerWritten, writeCalls,
                   pushed, faults, connectCalls, metadataResult, suggestedCompany,
                   planResume, summaryOut>>

\* createResearchPlanStep runs for the first time: it builds the plan and
\* suspends
CreateResearchPlan ==
    /\ ppc = "create-plan"
    /\ ppc' = "plan-suspended"
    /\ UNCHANGED <<dvars, svars, rvars, progress, totalRows, BATCH_SIZE, tavilySearch,
                   oracle, research, i, task, batchWriteBuffer, flushing, results,
                   successful, failed, possibleClients, totalScore, headerWritten,
                   writeCalls, pushed, faults>>

\* a plan step that proceeds on any resume
PlanProceedsAlways(resume) == TRUE

\* if (!resumeData?.approved) return await suspend(...)
PlanProceeds(resume) == resume.approved = TRUE

\* resumeData.adjustedBatchSize || plan.batchSize
PlanBatchSize(resume) ==
    IF TruthyNum(resume.adjustedBatchSize) THEN resume.adjustedBatchSize
    ELSE PLAN_BATCH_SIZE

\* the resume payloads of createResearchPlanStep that the model tries
PlanResumes ==
    { [approved |-> a, adjustedBatchSize |-> b] :
        a \in BOOLEAN, b \in {Absent, -2} \cup (0 .. MaxWorkflowRows) }

\* createResearchPlanStep resumed: it suspends again unless approved,
\* otherwise processLeadsStep runs next with the batch size of the plan
ResumeCreateResearchPlan(resume) ==
    /\ ppc = "plan-suspended"
    /\ planResume' = resume
    /\ IF PlanProceeds(resume)
       THEN BATCH_SIZE' = PlanBatchSize(resume) /\ ppc' = "start"
       ELSE UNCHANGED <<BATCH_SIZE, ppc>>
    /\ UNCHANGED <<dvars, rvars, progress, totalRows, tavilySearch, oracle,
                   research, i, task, batchWriteBuffer, flushing, results, successful,
                   failed, possibleClients, totalScore, headerWritten, writeCalls,
                   pushed, faults, connectCalls, metadataResult, suggestedCompany,
                   schemaResume, columnMapping, summaryOut>>

\* Math.round((a / b) * 100), 0 when b is 0
RoundedPercent(a, b) == IF b > 0 THEN (200 * a + b) \div (2 * b) ELSE 0

\* the number of leads in topLeads: .slice(0, 10)
TOP_LEADS == 10

\* top leads that are cut but not sorted
TopLeadsUnsorted(res) ==
    LET IsOk(x) == x.success
        ok == SelectSeq(res, IsOk)
    IN [p \in 1 .. Min(Len(ok), TOP_LEADS) |->
          [rowNumber |-> ok[p].rowNumber, score |-> ok[p].score]]

\* results.filter(r => r.success).sort((a, b) => b.score - a.score)
\*        .slice(0, 10).map(...): Array.prototype.sort is stable, so results
\* with the same score keep the order they have in results
TopLeads(res) ==
    LET IsOk(x) == x.success
        ok == SelectSeq(res, IsOk)
        Before(j, k) == \/ ok[j].score > ok[k].score
                        \/ ok[j].score = ok[k].score /\ j < k
        Rank(k) == 1 + Cardinality({ j \in DOMAIN ok : Before(j, k) })
        At(p) == ok[CHOOSE k \in DOMAIN ok : Rank(k) = p]
    IN [p \in 1 .. Min(Len(ok), TOP_LEADS) |->
          [rowNumber |-> At(p).rowNumber, score |-> At(p).score]]

\* results.filter(r => !r.success).map(...), error being r.error || 'Unknown error'
ErrorReport(res) ==
    LET IsFail(x) == ~x.success
        notOk == SelectSeq(res, IsFail)
    IN [k \in DOMAIN notOk |->
          [rowNumber |-> notOk[k].rowNumber,
           error |-> IF TruthyStr(notOk[k].error) THEN notOk[k].error
                     ELSE "Unknown error"]]

\* what processLeadsStep returns
ProcessLeadsOutput ==
    [totalProcessed |-> totalRows, successful |-> successful, failed |-> failed,
     possibleClients |-> possibleClients,
     averageScore |-> IF successful > 0
                      THEN (2 * totalScore + successful) \div (2 * successful) ELSE 0,
     results |-> results]

\* the output of generateSummaryStep; summary is the text, given by the
\* numbers and the lines it is made of
SummaryOutput(in) ==
    LET conversionRate == RoundedPercent(in.possibleClients, in.totalProcessed)
        topLeads == TopLeads(in.results)
        errorReport == ErrorReport(in.results)
    IN [returned |-> TRUE,
        summary |-> [totalProcessed |-> in.totalProcessed,
                     successful |-> in.successful, failed |-> in.failed,
                     possibleClients |-> in.possibleClients,
                     conversionRate |-> conversionRate,
                     averageScore |-> in.averageScore,
                     topLeads |-> topLeads,
                     errors |-> FailureSection(errorReport)],
        totalProcessed |-> in.totalProcessed, successful |-> in.successful,
        failed |-> in.failed, possibleClients |-> in.possibleClients,
        averageScore |-> in.averageScore, conversionRate |-> conversionRate,
        topLeads |-> topLeads, errorReport |-> errorReport]

\* processLeadsStep returned: generateSummaryStep runs and the workflow ends
GenerateSummary ==
    /\ ppc = "done"
    /\ summaryOut' = SummaryOutput(ProcessLeadsOutput)
    /\ ppc' = "summary-done"
    /\ UNCHANGED <<dvars, rvars, connectCalls, metadataResult, suggestedCompany,
                   schemaResume, columnMapping, planResume,
                   progress, totalRows, BATCH_SIZE, tavilySearch,
                   oracle, research, i, task, batchWriteBuffer, flushing, results,
                   successful, failed, possibleClients, totalScore, headerWritten,
                   writeCalls, pushed, faults>>

\* the lead research workflow as started: nothing has run; the sheet has up
\* to MaxWorkflowRows data rows and its headers may or may not name a company
WInit ==
    /\ DIdle
    /\ RIdle
    /\ ppc = "validate-connection"
    /\ connectCalls = 0
    /\ metadataResult = "none"
    /\ suggestedCompany \in {Undefined, "Company"}
    /\ schemaResume = NoSchemaResume
    /\ columnMapping = Undefined
    /\ planResume = NoPlanResume
    /\ summaryOut = NoOutput
    /\ totalRows \in 1 .. MaxWorkflowRows
    /\ BATCH_SIZE = 0
    /\ tavilySearch \in BOOLEAN
    /\ oracle = {FullResponse}
    /\ research = {"result"}
    /\ i = 0
    /\ task = [r \in RowNumbers |-> IdleTask]
    /\ batchWriteBuffer = << >>
    /\ flushing = [r \in {0} \cup RowNumbers |-> << >>]
    /\ results = << >>
    /\ successful = 0 /\ failed = 0 /\ possibleClients = 0 /\ totalScore = 0
    /\ headerWritten = FALSE
    /\ writeCalls = [r \in RowNumbers |-> 0]
    /\ pushed = {}
    /\ faults = 0
    /\ progress = << >>

WNext ==
    \/ \E ok \in BOOLEAN : ValidateConnection(ok)
    \/ \E ok \in BOOLEAN : ExploreStructure(ok)
    \/ \E resume \in SchemaResumes : \E ok \in BOOLEAN : ResumeExploreStructure(resume, ok)
    \/ CreateResearchPlan
    \/ \E resume \in PlanResumes : ResumeCreateResearchPlan(resume)
    \/ PNext
    \/ GenerateSummary

SpecWorkflow == WInit /\ [][WNext]_vars

\* processLeadsStep runs on by itself (every await of it returns, every timer
\* of it fires), and the workflow engine runs generateSummaryStep as soon as
\* processLeadsStep returned; the resumes are up to the user
\* where the two steps stand: every step of them changes it
StepPosition ==
    <<ppc, i, [r \in DOMAIN task |-> <<task[r].pc, task[r].attempt>>], summaryOut.returned>>

SpecWorkflowLive ==
    /\ WInit
    /\ [][WNext]_vars
    /\ WF_StepPosition(PNext)
    /\ WF_StepPosition(GenerateSummary)

(***************************************************************************)
(* The two summary steps on finished runs                                  *)
(***************************************************************************)
\* an answer of the oracle without score and without flag
UnscoredResponse == [summary |-> "S", score |-> Absent, label |-> "none", message |-> "M"]

\* the row task as it ends: after one attempt with an answer, or after
\* MAX_RETRIES failed reads
FinishedTask(outcome) ==
    CASE outcome = "failed" ->
           [IdleTask EXCEPT !.pc = "failed", !.attempt = MAX_RETRIES,
                            !.lastError = "Failed to read row"]
      [] outcome = "unscored" ->
           [IdleTask EXCEPT !.pc = "ok", !.attempt = 1, !.resp = UnscoredResponse,
                            !.researchResults = "Limited research data available"]
      [] outcome = "scored" ->
           [IdleTask EXCEPT !.pc = "ok", !.attempt = 1, !.resp = FullResponse,
                            !.researchResults = "Limited research data available"]

\* how the rows of a finished run of n rows ended: the first SummaryHead rows
\* in every way, the rows after them all failed, all scored, or unscored and
\* scored in turn
RunOutcomes(n) ==
    { [r \in 2 .. (n + 1) |->
          IF r - 1 <= SummaryHead THEN head[r - 1]
          ELSE CASE tail = "failed" -> "failed"
                 [] tail = "scored" -> "scored"
                 [] OTHER -> IF r % 2 = 0 THEN "unscored" ELSE "scored"] :
        head \in [1 .. SummaryHead -> {"failed", "unscored", "scored"}],
        tail \in {"failed", "scored", "in turn"} }

\* the rows of s up to and including the k-th chunk of size
ThroughChunk(s, k, size) == SubSeq(s, 1, Min(k * size, Len(s)))

\* processLeadsStep has returned from a run with the default batch size in
\* which no two row tasks overlapped: every row that got an answer was
\* pushed and written once, the buffer was flushed and emptied at every
\* BATCH_WRITE_SIZE-th push and what remained went out with the final flush
SummaryInit ==
    /\ DIdle
    /\ RIdle
    /\ totalRows \in 1 .. MaxSummaryRows
    /\ BATCH_SIZE = PLAN_BATCH_SIZE
    /\ SetupDone
    /\ summaryOut = NoOutput
    /\ tavilySearch = FALSE
    /\ oracle = {FullResponse, UnscoredResponse}
    /\ research = {"result"}
    /\ ppc = "done"
    /\ i = BATCH_SIZE * ((totalRows + BATCH_SIZE - 1) \div BATCH_SIZE)
    /\ \E out \in RunOutcomes(totalRows) : task = [r \in RowNumbers |-> FinishedTask(out[r])]
    /\ flushing = [r \in {0} \cup RowNumbers |-> << >>]
    /\ results = BatchResults(2, totalRows + 1)
    /\ LET IsOk(x) == x.success
           IsFail(x) == ~x.success
           IsYes(x) == x.success /\ x.isPossibleClient = "YES"
           ok == SelectSeq(results, IsOk)
           rest == Len(ok) % BATCH_WRITE_SIZE
       IN /\ successful = CountIf(results, IsOk)
          /\ failed = CountIf(results, IsFail)
          /\ possibleClients = CountIf(results, IsYes)
          /\ totalScore = SumScores(results)
          /\ progress = [k \in 1 .. (i \div BATCH_SIZE) |->
                           LET pre == ThroughChunk(results, k, BATCH_SIZE)
                           IN [processed |-> Len(pre),
                               successful |-> CountIf(pre, IsOk),
                               failed |-> CountIf(pre, IsFail),
                               possibleClients |-> CountIf(pre, IsYes)]]
          /\ batchWriteBuffer =
                [k \in 1 .. rest |->
                   LET r == ok[Len(ok) - rest + k].rowNumber
                   IN BufferEntry(r, task[r].resp)]
          /\ pushed = { ok[k].rowNumber : k \in DOMAIN ok }
          /\ writeCalls = [r \in RowNumbers |-> IF task[r].pc = "ok" THEN 1 ELSE 0]
          /\ faults = MAX_RETRIES * CountIf(results, IsFail)
    /\ headerWritten = TRUE

\* a lead loadLeadsStep returns and every filter but the custom ones keeps
ReportLead ==
    [email |-> "lead@x.com", message |-> "Hello", score |-> 85,
     isPossibleClient |-> "YES", summary |-> Undefined, industry |-> Undefined]

\* sendSingleEmail as it ends: sent at the first attempt, or failed after
\* SEND_MAX_RETRIES attempts
FinishedSend(outcome) ==
    IF outcome = "sent" THEN [IdleSend EXCEPT !.pc = "sent", !.attempt = 1]
    ELSE [IdleSend EXCEPT !.pc = "failed", !.attempt = SEND_MAX_RETRIES,
                          !.lastError = "send failed"]

\* updateSendStatusStep has returned from a dispatch run over up to
\* MaxReportLeads leads that was resumed with the filter 'all' and confirmed;
\* every send ended in either way and every status write succeeded
ReportInit ==
    /\ PIdle
    /\ RIdle
    /\ dpc = "generate-report"
    /\ \E n \in 1 .. MaxReportLeads : leads = WithRowNumbers([k \in 1 .. n |-> ReportLead])
    /\ resumeData = [selectedFilter |-> "all", customMinScore |-> Absent,
                     customMaxScore |-> Absent, customIndustry |-> Undefined,
                     onlyWithEmail |-> FALSE]
    /\ filteredLeads = ApplyFilters(leads, resumeData)
    /\ warning = PreviewWarning(filteredLeads)
    /\ confirmed = TRUE
    /\ subjectTemplate = SubjectTemplate([confirmed |-> TRUE,
                                          customSubjectTemplate |-> Undefined])
    /\ si = SEND_BATCH_SIZE * ((Len(filteredLeads) + SEND_BATCH_SIZE - 1) \div SEND_BATCH_SIZE)
    /\ \E out \in [DOMAIN filteredLeads -> {"sent", "failed"}] :
          stask = [k \in DOMAIN filteredLeads |-> FinishedSend(out[k])]
    /\ sendCalls = [k \in DOMAIN stask |-> stask[k].attempt]
    /\ sresults = SendResults(1, Len(stask))
    /\ LET IsSent(x) == x.status = "sent"
           IsFailed(x) == x.status # "sent"
       IN /\ totalSent = CountIf(sresults, IsSent)
          /\ totalFailed = CountIf(sresults, IsFailed)
          /\ sfaults = SEND_MAX_RETRIES * CountIf(sresults, IsFailed)
    /\ statusWrites = Len(sresults)
    /\ statusAccepted = Len(sresults)
    /\ updateOut = UpdateOutput(totalSent, totalFailed, sresults, TRUE)
    /\ report = NoOutput

\* either engine with its last step to run
SummariesInit == SummaryInit \/ ReportInit
SummariesNext == GenerateSummary \/ GenerateDispatchReport
SpecSummaries == SummariesInit /\ [][SummariesNext]_vars

\* runs of up to MaxRows rows in batches of up to MaxBatch, the oracle giving
\* a complete answer and the research call returning results
Init == PInit(MaxRows, MaxBatch, {FullResponse}, {"result"})
Spec == Init /\ [][PNext]_vars

\* runs of up to MaxScoredRows rows, the oracle and the research call
\* answering in every way
ScoringInit == PInit(MaxScoredRows, MaxScoredRows, OracleResponses, SearchOutcomes)
SpecScoring == ScoringInit /\ [][PNext]_vars

(***************************************************************************)
(* Properties of processLeadsStep                                          *)
(***************************************************************************)
\* the chunk a row belongs to, counted from 0
ChunkOf(r) == (r - 2) \div BATCH_SIZE

\* a row task that awaits an external call (row read, research, scoring)
InExternalCall(r) == task[r].pc \in {"read", "search", "score"}

\* C1: when processLeadsStep has returned, successful + failed equals the
\* number of rows, and every row has exactly one result, counted as a success
\* or as a failure
C1_CountersAddUp ==
    ppc = "done" =>
        /\ successful + failed = totalRows
        /\ Len(results) = totalRows
        /\ \A r \in RowNumbers :
              Cardinality({ k \in 1 .. Len(results) : results[k].rowNumber = r }) = 1
        /\ successful = Cardinality({ k \in 1 .. Len(results) : results[k].success })
        /\ failed = Cardinality({ k \in 1 .. Len(results) : ~results[k].success })

\* a finished run of several chunks with a success and a failure
C1_Witness ==
    /\ ppc = "done" /\ totalRows >= 3 /\ BATCH_SIZE = 2
    /\ successful >= 1 /\ failed >= 1

\* C2: when processLeadsStep has returned, a write call was issued for every
\* result that was appended to the pending-write buffer
C2_EveryBufferedResultWritten ==
    ppc = "done" => \A r \in pushed : writeCalls[r] >= 1

C5_Step ==
    \A r \in RowNumbers :
        /\ task[r].pc \in {"ok", "failed", "flush"} =>
              /\ task'[r].attempt = task[r].attempt
              /\ task'[r].pc \in {"ok", "failed", "flush"}
        /\ task'[r].attempt # task[r].attempt =>
              \/ task[r].pc = "idle" /\ task'[r].attempt = 1
              \/ task[r].pc = "backoff" /\ task'[r].attempt = task[r].attempt + 1

\* C5: a row task makes at most 3 attempts, retries only while fewer than 3
\* were made, is a hard failure only after its 3rd attempt failed, and is not
\* attempted again once it succeeded or failed
C5_AtMostThreeAttempts ==
    /\ [](\A r \in RowNumbers :
            /\ task[r].attempt <= MAX_RETRIES
            /\ task[r].pc = "backoff" => task[r].attempt < MAX_RETRIES
            /\ task[r].pc = "failed" => task[r].attempt = MAX_RETRIES)
    /\ [][C5_Step]_vars

\* a finished run with a row that failed on its 3rd attempt
C5_Witness ==
    /\ ppc = "done"
    /\ \E r \in RowNumbers : task[r].pc = "failed" /\ task[r].attempt = MAX_RETRIES

\* C6, the step part: the research call, however it ends, is followed by the
\* scoring call of the same attempt
C6_Step ==
    \A r \in RowNumbers :
        (task[r].pc = "search" /\ task'[r] # task[r]) =>
            /\ task'[r].pc = "score"
            /\ task'[r].attempt = task[r].attempt

\* C6: a research failure never fails the row: the scoring call is made with
\* the placeholder text, and when it returns the row is a success whose
\* result was buffered
C6_ResearchFailureStillScored ==
    /\ [](\A r \in RowNumbers :
            /\ task[r].lastError # "search failed"
            /\ task[r].researchResults = "Research data unavailable" =>
                  /\ task[r].pc \in {"score", "flush", "ok"}
                  /\ task[r].pc \in {"flush", "ok"} => r \in pushed)
    /\ [][C6_Step]_vars

\* a finished run with a successful, written row whose research call threw
C6_Witness ==
    /\ ppc = "done"
    /\ \E k \in 1 .. Len(results) :
          /\ results[k].success
          /\ task[results[k].rowNumber].researchResults = "Research data unavailable"
          /\ writeCalls[results[k].rowNumber] >= 1

\* the qualifies flag derived from a score
Derived(score) == IF score >= QUALIFY_THRESHOLD THEN "YES" ELSE "NO"

C8_NoSendWithoutConfirmation ==
    /\ (\E k \in DOMAIN sendCalls : sendCalls[k] > 0) => confirmed
    /\ dpc \in {"send-loop", "send-await", "send-delay", "update-send-status"} => confirmed
    /\ ~confirmed => (\A k \in DOMAIN stask : stask[k].pc = "idle")

\* a send call was issued
C8_Witness == \E k \in DOMAIN sendCalls : sendCalls[k] > 0

ScoresOf(ls) == [k \in 1 .. Len(ls) |-> ls[k].score]

\* C10: the high-score filter returns, in their original order, exactly the
\* leads with email and message whose score is at least 70; the ten scenario
\* scores give 95, 80, 72, 71, 100, 70
C10_HighScoreInclusive ==
    (dpc = "preview-emails" /\ resumeData.selectedFilter = "high-score") =>
        LET Expected(l) == /\ l.email \notin {Undefined, ""}
                           /\ l.message \notin {Undefined, ""}
                           /\ l.score \in 70 .. 1000
        IN /\ filteredLeads = SelectSeq(leads, Expected)
           /\ leads = ScenarioLeads =>
                 ScoresOf(filteredLeads) = <<95, 80, 72, 71, 100, 70>>
           /\ \A k \in 1 .. Len(filteredLeads) : filteredLeads[k].score # 69

\* the high-score filter applied to the ten scenario leads
C10_Witness ==
    /\ dpc = "preview-emails"
    /\ resumeData.selectedFilter = "high-score"
    /\ leads = ScenarioLeads
    /\ Len(filteredLeads) = 6

(***************************************************************************)
(* Properties of sendEmailsStep and the steps after it                     *)
(***************************************************************************)
\* sendEmailsStep has returned
AfterSendAll == dpc \in {"update-send-status", "update-await", "generate-report", "done"}

\* C11: after sendEmailsStep returned over M filtered leads,
\* totalSent + totalFailed = M, the results hold exactly one entry per lead, in
\* order, with status sent or failed, the counters count those entries, and
\* every lead was given a send call: a lead whose sends all failed is marked
\* failed and stops no other send of its batch or of a later batch
C11_EveryLeadSentOrFailed ==
    AfterSendAll =>
        /\ totalSent + totalFailed = Len(filteredLeads)
        /\ Len(sresults) = Len(filteredLeads)
        /\ \A k \in DOMAIN filteredLeads :
              /\ sresults[k].rowNumber = filteredLeads[k].rowNumber
              /\ sresults[k].status \in {"sent", "failed"}
              /\ sresults[k].status = stask[k].pc
              /\ sendCalls[k] >= 1
        /\ totalSent = Cardinality({ k \in DOMAIN sresults : sresults[k].status = "sent" })
        /\ totalFailed = Cardinality({ k \in DOMAIN sresults : sresults[k].status = "failed" })

\* a lead of the first batch failed for good, the other lead of that batch and
\* the lead of the next batch were sent
C11_Witness ==
    /\ AfterSendAll
    /\ Len(filteredLeads) > SEND_BATCH_SIZE
    /\ totalFailed >= 1
    /\ \E k \in 1 .. SEND_BATCH_SIZE : \E j \in 1 .. SEND_BATCH_SIZE :
          sresults[k].status = "failed" /\ sresults[j].status = "sent"
    /\ sresults[Len(sresults)].status = "sent"

\* what one step may do to the send calls of the leads
C12_Step ==
    \A k \in DOMAIN sendCalls :
        k \in DOMAIN sendCalls' /\ sendCalls'[k] # sendCalls[k] =>
            /\ sendCalls'[k] = sendCalls[k] + 1
            /\ stask[k].pc \notin {"sent", "failed"}
            /\ sendCalls[k] >= 1 =>
                  stask[k].pc = "backoff" /\ stask[k].attempt < SEND_MAX_RETRIES

\* C12: each lead's send is attempted at most 2 times; a failed attempt is
\* retried only while fewer than 2 attempts were made; a lead is marked failed
\* only after its 2nd failed attempt, with the error of that attempt; and no
\* send call is issued for a lead whose attempt succeeded
C12_AtMostTwoSends ==
    /\ [](\A k \in DOMAIN stask :
            /\ sendCalls[k] <= SEND_MAX_RETRIES
            /\ sendCalls[k] = stask[k].attempt
            /\ stask[k].pc = "failed" =>
                  stask[k].attempt = SEND_MAX_RETRIES /\ stask[k].lastError # "none"
            /\ AfterSendAll /\ stask[k].pc = "failed" =>
                  sresults[k].error = stask[k].lastError)
    /\ [][C12_Step]_vars

\* a lead was sent at its 2nd attempt and another failed after 2 attempts
C12_Witness ==
    /\ AfterSendAll
    /\ \E k \in DOMAIN stask : stask[k].pc = "sent" /\ sendCalls[k] = 2
    /\ \E k \in DOMAIN stask : stask[k].pc = "failed" /\ sendCalls[k] = 2

\* once sendEmailsStep returned, no step sends again or changes the outcome
C13_Step ==
    AfterSendAll =>
        /\ sendCalls' = sendCalls
        /\ sresults' = sresults
        /\ totalSent' = totalSent /\ totalFailed' = totalFailed

\* the status write-back failed
WriteBackFailed == updateOut.returned /\ ~updateOut.sheetUpdated

\* C13: a failure of the status write-back leaves the dispatch outcome as
\* sendEmailsStep produced it: the counters and results handed to the report
\* are those of sendEmailsStep, the report step runs, and no send call is
\* issued and no result changed after sendEmailsStep returned
C13_WriteBackFailureKeepsOutcome ==
    /\ [](updateOut.returned =>
            /\ updateOut.totalSent = totalSent
            /\ updateOut.totalFailed = totalFailed
            /\ updateOut.results = sresults)
    /\ [](report.returned =>
            /\ report.totalSent = totalSent
            /\ report.totalFailed = totalFailed
            /\ Len(report.sentEmails) = totalSent
            /\ Len(report.failedEmails) = totalFailed)
    /\ [][C13_Step]_vars
    /\ (WriteBackFailed ~> report.returned)

\* the report was produced after a failed write-back, with sent and failed leads
C13_Witness ==
    /\ WriteBackFailed
    /\ report.returned
    /\ totalSent >= 1 /\ totalFailed >= 1

C15_StopsBelowDailyLimit ==
    Cardinality({ k \in DOMAIN sendCalls : sendCalls[k] >= 1 }) <= DAILY_SEND_STOP

(***************************************************************************)
(* Properties of the chunking and of the steps before processLeadsStep     *)
(***************************************************************************)
\* the number of rows of the first k chunks
RowsThroughChunk(k) == Min(k * BATCH_SIZE, totalRows)

NothingProcessed ==
    /\ ~headerWritten
    /\ \A r \in RowNumbers : task[r].pc = "idle" /\ writeCalls[r] = 0
    /\ pushed = {} /\ results = << >> /\ batchWriteBuffer = << >>
    /\ planResume = NoPlanResume

\* the mapping a resume of the schema step ends up with has no company column
NoCompanyMapped(resume) ==
    IF resume.customMapping.given
    THEN resume.customMapping.companyColumn \in {Undefined, ""}
    ELSE suggestedCompany \in {Undefined, ""}

\* a resume of the schema step with confirmed = true and no company column
\* makes the step throw
C17_Step ==
    /\ ppc = "explore-suspended" /\ schemaResume'.confirmed /\ NoCompanyMapped(schemaResume')
         => ppc' = "explore-failed"
    /\ ppc = "explore-failed" => UNCHANGED vars

\* C17: resuming the schema step with confirmed = true while the mapping in
\* effect has no company column makes the step throw; the failed run goes no
\* further: no plan, no processing, nothing written
C17_MissingCompanyIsFatal ==
    /\ [](ppc = "explore-failed" => NothingProcessed /\ columnMapping = Undefined)
    /\ [][C17_Step]_vars

\* the step threw on a confirmed resume whose custom mapping has no company
\* column, although the headers had suggested one
C17_Witness ==
    /\ ppc = "explore-failed"
    /\ schemaResume.confirmed
    /\ schemaResume.customMapping.given
    /\ NoCompanyMapped(schemaResume)
    /\ suggestedCompany = "Company"

\* the stage a position of the workflow belongs to: connect, schema, plan,
\* processing, summary
StageRank(pc) ==
    CASE pc \in {"validate-connection", "connection-failed"} -> 1
      [] pc \in {"explore-structure", "explore-suspended", "explore-failed"} -> 2
      [] pc \in {"create-plan", "plan-suspended"} -> 3
      [] pc \in {"start", "loop", "await", "delay", "finalflush", "done", "aborted"} -> 4
      [] pc = "summary-done" -> 5

\* a row task has issued a call, or something was written or buffered
ProcessingTouched ==
    \/ headerWritten
    \/ \E r \in RowNumbers : task[r].pc # "idle" \/ writeCalls[r] > 0
    \/ pushed # {}

\* C18: no row read, research call, scoring call or write (the header write
\* included) happens before the schema step was resumed with confirmed = true
\* and, after it, the plan step was resumed with approved = true; and the
\* stages are passed in the order connect, schema, plan, processing, summary
C18_NothingBeforeBothApprovals ==
    /\ [](ProcessingTouched \/ StageRank(ppc) >= 4 =>
            /\ schemaResume.confirmed /\ columnMapping \notin {Undefined, ""}
            /\ planResume.approved)
    /\ [](planResume # NoPlanResume => schemaResume.confirmed /\ StageRank(ppc) >= 3)
    /\ [](schemaResume # NoSchemaResume => metadataResult = "ok" /\ StageRank(ppc) >= 2)
    /\ [][StageRank(ppc') \in {StageRank(ppc), StageRank(ppc) + 1}]_vars

\* a run that was held back at both suspend points before it was let through,
\* and then processed rows and reached the summary
C18_Witness ==
    /\ ppc = "summary-done"
    /\ headerWritten
    /\ successful >= 1
    /\ planResume.approved /\ planResume.adjustedBatchSize = 1

\* C19: when the metadata call of the connect step fails the step throws at
\* once: the call was made once and is never made again, and no later stage
\* runs
C19_ConnectFailureIsFatal ==
    /\ [](metadataResult = "failed" =>
            /\ ppc = "connection-failed"
            /\ connectCalls = 1
            /\ NothingProcessed
            /\ schemaResume = NoSchemaResume /\ columnMapping = Undefined)
    /\ [](connectCalls <= 1)
    /\ [][ppc = "connection-failed" => UNCHANGED vars]_vars

\* the run failed at the connect step
C19_Witness ==
    /\ ppc = "connection-failed"
    /\ metadataResult = "failed"
    /\ connectCalls = 1

(***************************************************************************)
(* Properties of the row results, the chunk barrier and the buffer         *)
(***************************************************************************)
\* C24: every result of a successful row task has a score in 0 .. 100
C24_ScoreInRange ==
    \A k \in DOMAIN results :
        results[k].success => results[k].score \in 0 .. 100

\* C27: the qualifies flag of a successful row result is the oracle's
\* POSSIBLE CLIENT label (in upper case) when the answer has one, and
\* otherwise YES exactly when the parsed or default score is >= 60
C27_QualifiesRule ==
    \A k \in DOMAIN results :
        results[k].success =>
            LET resp == task[results[k].rowNumber].resp
            IN /\ resp.label \in {"YES", "yes"} => results[k].isPossibleClient = "YES"
               /\ resp.label \in {"NO", "no"} => results[k].isPossibleClient = "NO"
               /\ resp.label = "none" =>
                     (results[k].isPossibleClient = "YES"
                        <=> results[k].score >= QUALIFY_THRESHOLD)
               /\ results[k].isPossibleClient \in {"YES", "NO"}

\* a finished run with a result the oracle's label turned to NO against a
\* score of 60 or more, and a result without a label that took the derived flag
C27_Witness ==
    /\ ppc = "done"
    /\ \E k \in DOMAIN results :
          /\ results[k].success /\ results[k].score >= QUALIFY_THRESHOLD
          /\ results[k].isPossibleClient = "NO"
    /\ \E k \in DOMAIN results :
          /\ results[k].success
          /\ task[results[k].rowNumber].resp.label = "none"

\* a row task that was started and has not returned
InFlight(r) == task[r].pc \notin {"idle", "ok", "failed"}

\* C28: the row tasks in flight all belong to one chunk and number at most
\* batchSize, and no row task has started while a row task of an earlier
\* chunk has not returned
C28_ChunkBarrier ==
    /\ \A r \in RowNumbers : \A q \in RowNumbers :
          InFlight(r) /\ InFlight(q) => ChunkOf(r) = ChunkOf(q)
    /\ Cardinality({ r \in RowNumbers : InFlight(r) }) <= BATCH_SIZE
    /\ \A r \in RowNumbers : \A q \in RowNumbers :
          task[r].pc # "idle" /\ ChunkOf(q) < ChunkOf(r) => task[q].pc \in {"ok", "failed"}

\* a full second chunk of several rows is in flight
C28_Witness ==
    /\ i > 0
    /\ BATCH_SIZE >= 2
    /\ Cardinality({ r \in RowNumbers : InFlight(r) }) = BATCH_SIZE

\* C29: while a row task is running the counters are the totals of the
\* chunks completed before: they count the results aggregated so far, and
\* successful + failed is the number of rows of those chunks
C29_CountersPerChunk ==
    (\E r \in RowNumbers : InFlight(r)) =>
        /\ successful + failed = i
        /\ Len(results) = i
        /\ successful = Cardinality({ k \in DOMAIN results : results[k].success })
        /\ failed = Cardinality({ k \in DOMAIN results : ~results[k].success })
        /\ possibleClients =
              Cardinality({ k \in DOMAIN results :
                              results[k].success /\ results[k].isPossibleClient = "YES" })

\* in the second chunk one row task has returned and another is running
C29_Witness ==
    /\ i > 0
    /\ successful + failed = i
    /\ \E r \in Batch : InFlight(r)
    /\ \E r \in Batch : task[r].pc \in {"ok", "failed"}

\* no flush of the pending-write buffer is awaited
NoFlushRunning == ppc # "finalflush" /\ \A r \in RowNumbers : task[r].pc # "flush"

\* C30: whenever no flush is running the pending-write buffer holds fewer
\* entries than the flush threshold
C30_BufferBelowThreshold ==
    NoFlushRunning => Len(batchWriteBuffer) < BATCH_WRITE_SIZE

\* entries are buffered below the threshold after a flush has completed
C30_Witness ==
    /\ NoFlushRunning
    /\ Len(batchWriteBuffer) = BATCH_WRITE_SIZE - 1
    /\ \E r \in RowNumbers : writeCalls[r] > 0

(***************************************************************************)
(* Properties of the reader tool                                           *)
(***************************************************************************)
\* the record the documentation describes for data row r: the header names of
\* row 1 as keys, the cells of row r as values
HeaderKeyedRow(sh, r) == RowObject(sh[1], sh[r])

\* C20: a read of data row r >= 2 in mode 'row' that returns a row returns
\* the record whose keys are the header names of row 1 and whose values are
\* the cells of row r, so that the company is found under the mapped header
C20_RowKeyedByHeaders ==
    rowResult.returned /\ rowResult.hasRow /\ rowResult.rowIndex >= 2 =>
        /\ rowResult.row = HeaderKeyedRow(sheet, rowResult.rowIndex)
        /\ CompanyName(rowResult.row, "Company")
             = CompanyName(HeaderKeyedRow(sheet, rowResult.rowIndex), "Company")

(***************************************************************************)
(* Properties of the suspend points                                        *)
(***************************************************************************)
\* C25: a dispatch run suspends once between loading the leads and sending:
\* a run that was suspended for the filter and resumed with a filter (the
\* resume payload is kept in resumeData) is not suspended a second time
C25_DispatchSuspendsOnce ==
    ~(dpc = "preview-emails-suspended" /\ resumeData.selectedFilter # Undefined)

\* C26: a resume of the suspended exploreStructureStep with a payload that
\* has no `confirmed` ends the run in an error
C26_Step ==
    /\ ppc = "explore-suspended"
    /\ schemaResume' # schemaResume
    /\ ~schemaResume'.hasConfirmed
    => ppc' = "explore-failed"

C26_MalformedResumeIsError == [][C26_Step]_vars

\* the result columns of row r were written
ResultsWritten(sh, r) ==
    /\ r \in 2 .. Len(sh)
    /\ Len(sh[1]) = NewColumnStart + 3
    /\ Len(sh[r]) = NewColumnStart + 3

\* C21: a read of row r in mode 'row', made after the four result values
\* of row r were written, returns the same four values under the four result
\* headers
C21_Step ==
    /\ rowResult' # rowResult
    /\ sheet' = sheet
    /\ ResultsWritten(sheet, rowResult'.rowIndex)
    => /\ rowResult'.hasRow
       /\ \A j \in 1 .. 4 :
            /\ ResultHeaders[j] \in DOMAIN rowResult'.row
            /\ rowResult'.row[ResultHeaders[j]]
                 = sheet[rowResult'.rowIndex][NewColumnStart + j - 1]

C21_RoundTrip == [][C21_Step]_vars

(***************************************************************************)
(* Properties of the two summaries                                         *)
(***************************************************************************)
\* the results of the rows that succeeded
SucceededRows == { k \in DOMAIN results : results[k].success }

\* C22: the top leads of the summary are at most 10 rows, each a row that
\* succeeded with the score it got, ordered by score descending and, for
\* equal scores, by row order; no succeeded row outside the list has a
\* higher score than a row inside it
C22_TopLeadsOrdered ==
    summaryOut.returned =>
        LET top == summaryOut.topLeads
            Listed == { top[p].rowNumber : p \in DOMAIN top }
        IN /\ Len(top) <= 10
           /\ \A p \in DOMAIN top :
                \E k \in SucceededRows : /\ results[k].rowNumber = top[p].rowNumber
                                         /\ results[k].score = top[p].score
           /\ \A p, q \in DOMAIN top :
                p < q => \/ top[p].score > top[q].score
                         \/ /\ top[p].score = top[q].score
                            /\ top[p].rowNumber < top[q].rowNumber
           /\ \A k \in SucceededRows :
                results[k].rowNumber \notin Listed =>
                    \A p \in DOMAIN top : results[k].score <= top[p].score

\* more than 10 rows succeeded, rows with the same score are listed, and a
\* row with a lower score comes before a listed row in the sheet
C22_Witness ==
    /\ summaryOut.returned
    /\ Cardinality(SucceededRows) > 10
    /\ Len(summaryOut.topLeads) = 10
    /\ summaryOut.topLeads[1].score = summaryOut.topLeads[2].score
    /\ \E k \in SucceededRows :
          /\ results[k].score < summaryOut.topLeads[10].score
          /\ results[k].rowNumber < summaryOut.topLeads[10].rowNumber

\* the failure section of a summary text lists the first failures of the
\* failures given, at most 5, and counts the others
FailuresCapped(errors, failures) ==
    /\ Len(errors.lines) <= 5
    /\ Len(errors.lines) = Min(Len(failures), 5)
    /\ \A k \in DOMAIN errors.lines : errors.lines[k] = failures[k]
    /\ errors.more = IF Len(failures) > 5 THEN Len(failures) - 5 ELSE 0

\* the rows that failed, with their reasons
FailedRows ==
    LET IsFail(x) == ~x.success
        notOk == SelectSeq(results, IsFail)
    IN [k \in DOMAIN notOk |-> [rowNumber |-> notOk[k].rowNumber, error |-> notOk[k].error]]

\* the recipients the sends to which failed, with their reasons
FailedSends ==
    LET IsFailed(x) == x.status = "failed"
        notSent == SelectSeq(sresults, IsFailed)
    IN [k \in DOMAIN notSent |-> [email |-> notSent[k].email, error |-> notSent[k].error]]

\* C23: the summary text of either engine states the numbers of successes
\* and of failures, lists the details of at most 5 failures (row or
\* recipient and reason), and for F > 5 failures says that there are F - 5
\* more
C23_SummaryCapsFailures ==
    /\ summaryOut.returned =>
          /\ summaryOut.summary.successful = Cardinality(SucceededRows)
          /\ summaryOut.summary.failed = Len(FailedRows)
          /\ FailuresCapped(summaryOut.summary.errors, FailedRows)
    /\ report.returned =>
          /\ report.summary.totalSent = Len(sresults) - Len(FailedSends)
          /\ report.summary.totalFailed = Len(FailedSends)
          /\ FailuresCapped(report.summary.errors, FailedSends)

\* a dispatch report over more than 5 failed sends
C23_Witness ==
    /\ report.returned
    /\ Len(FailedSends) > 5
    /\ report.summary.errors.more = Len(FailedSends) - 5
    /\ report.summary.totalSent > 0

\* a pipeline summary over more than 5 failed rows
C23_WitnessPipeline ==
    /\ summaryOut.returned
    /\ Len(FailedRows) > 5
    /\ summaryOut.summary.errors.more = Len(FailedRows) - 5
    /\ summaryOut.summary.successful > 0

(***************************************************************************)
(* Properties of the row writes and of the results list                    *)
(***************************************************************************)
\* C31: no two write calls for the same row are in flight at the same time
\* and the result range of a row is written by at most one flush
C31_RowWritesDisjoint ==
    /\ \A a, b \in DOMAIN flushing :
          a # b => RowsOf(flushing[a]) \cap RowsOf(flushing[b]) = {}
    /\ \A r \in DOMAIN writeCalls : writeCalls[r] <= 1

(***************************************************************************)
(* Properties of the custom filter                                         *)
(***************************************************************************)
\* C39: the custom filter with a score range keeps exactly the sendable
\* leads whose score lies in [min, max], min being 0 and max 100 only when
\* not supplied; a score of 0 and a supplied bound of 0 count as such
C39_CustomRangeExact ==
    (/\ dpc = "preview-emails"
     /\ resumeData.selectedFilter = "custom"
     /\ resumeData.customIndustry = Undefined) =>
        LET lo == IF resumeData.customMinScore = Absent THEN 0
                  ELSE resumeData.customMinScore
            hi == IF resumeData.customMaxScore = Absent THEN 100
                  ELSE resumeData.customMaxScore
            Expected(l) == /\ l.email \notin {Undefined, ""}
                           /\ l.message \notin {Undefined, ""}
                           /\ l.score # Absent
                           /\ lo <= l.score /\ l.score <= hi
        IN filteredLeads = SelectSeq(leads, Expected)

(***************************************************************************)
(* Properties of the status write-back                                     *)
(***************************************************************************)
\* C37: updateSendStatusStep reports sheetUpdated = true only if the store
\* accepted the status write of every result
C37_SheetUpdatedMeansAllAccepted ==
    updateOut.returned /\ updateOut.sheetUpdated => statusAccepted = Len(updateOut.results)

\* C34: the results list holds the rows in ascending row order, each once,
\* every entry with the outcome of its own row, and when the step has
\* returned it holds every row 2 .. N + 1
C34_ResultsInRowOrder ==
    /\ \A k \in DOMAIN results :
          /\ results[k].rowNumber = k + 1
          /\ task[k + 1].pc \in {"ok", "failed"}
          /\ results[k].success = (task[k + 1].pc = "ok")
          /\ results[k].success =>
                /\ results[k].score = ParseScore(task[k + 1].resp)
                /\ results[k].isPossibleClient = ParsePossibleClient(task[k + 1].resp)
          /\ ~results[k].success => results[k].error = task[k + 1].lastError
    /\ ppc = "done" => Len(results) = totalRows

\* a run has returned in which a later row of a chunk finished before an
\* earlier one that failed after its retries
C34_Witness ==
    /\ ppc = "done"
    /\ Len(results) >= 3
    /\ \E k \in DOMAIN results :
          /\ k + 1 \in DOMAIN results
          /\ ChunkOf(k + 1) = ChunkOf(k + 2)
          /\ ~results[k].success
          /\ results[k + 1].success

(***************************************************************************)
(* Properties of the order of the sends                                    *)
(***************************************************************************)
\* the batch of sendEmailsStep the lead at position k belongs to
SendBatchOf(k) == (k - 1) \div SEND_BATCH_SIZE

C38_DefaultMessageNeverSent ==
    \A k \in DOMAIN leads :
        leads[k].message = ParseMessage([FullResponse EXCEPT !.message = "none"]) =>
            \A rd \in FilterResumes :
                LET out == ApplyFilters(leads, rd)
                IN \A j \in DOMAIN out : out[j].rowNumber # leads[k].rowNumber

TypeOK ==
    /\ ppc \in {"idle", "validate-connection", "connection-failed", "explore-structure",
                "explore-suspended", "explore-failed", "create-plan", "plan-suspended",
                "start", "loop", "await", "delay", "finalflush", "done", "aborted",
                "summary-done"}
    /\ dpc \in {"idle", "apply-filters", "apply-filters-suspended", "preview-emails",
                "preview-emails-suspended", "send-loop", "send-await", "send-delay",
                "update-send-status", "update-await", "generate-report", "done"}
    /\ summaryOut.returned \in BOOLEAN
====
